---- MODULE Spec2Model ----
(***************************************************************************)
(* Evidence grounding and provenance validation engine of rag-pack:        *)
(* citation tokens, the provenance / schema / path gates, the              *)
(* deterministic repairs and the per-question retry orchestrator of        *)
(* run_pack.py::_run_single.                                               *)
(*                                                                         *)
(* Text is modelled structurally.  A citation token "file:src/x.rs:3-5"    *)
(* is the record [pre |-> <<"file">>, path |-> "src/x.rs", a |-> 3,        *)
(* b |-> 5]; a = -1 / b = -1 mean "no :line" / "no -line".  An answer is   *)
(* a sequence of lines, each line classified by what the regular           *)
(* expressions of the source see in it.                                    *)
(***************************************************************************)
EXTENDS Integers, Sequences, FiniteSets, TLC

VARIABLES
    pc,                 \* position in _run_single for the current question
    cfg,                \* question / pack / CLI configuration (read-only)
    evidence_blocks,    \* evidence_blocks injected for the question
    allowed_citations,  \* allowed_citations_by_q[q.id]
    allowed_built,      \* whether allowed_citations_by_q has an entry for q.id
    answer,             \* the current answer text (chat_json["answer"] / ans)
    last_reply,         \* the answer text of the last answer model call
    top_k,              \* retrieval breadth of the last answer model call
    adaptive_rerun_count,
    schema_retry_count,
    advice_retry_count,
    retry_idx,          \* loop variable of the schema / advice retry loops
    llm_dispatch,       \* phases of the model calls made so far, in order
    schema_issues,      \* schema_issues: the gate issues of the final answer
    advice_quality_issues, \* whether the last advice text has quality issues
    engine_added,       \* citation tokens the engine itself wrote into the answer
    runtime_dynamic_keys,   \* _RUNTIME_DYNAMIC_KEYS: category -> learned keys
    engine_schema_contract_loaded, \* _RUNTIME_ENGINE_SCHEMA_CONTRACT_LOADED
    evidence_key_state,     \* the effective keys recorded when the run started
    questions_started,      \* questions whose processing has begun
    preflights,             \* q.preflight: the steps of the current question
    preflight_artifacts,    \* out_dir/{q.id}_{name}.json, by step name
    preflight_rows_by_name, \* filtered rows by step name
    step_idx,               \* position in the preflight loops
    transform_events,       \* what group_by_path_top_n did, per step, in order
    preflight_sig_cache,    \* preflight_sig_cache: signature -> artifact file
    preflight_filtered_to_zero_failures, \* of the current question
    report_lines,           \* report_lines: the report accumulated in memory
    report_file,            \* the content of out_dir/REPORT.md (<<>>: no file)
    fatal_contract_issues,
    fatal_advice_gate_issues,
    runs_started            \* invocations of the runner on the same out_dir

vars == <<pc, cfg, evidence_blocks, allowed_citations, allowed_built, answer,
          last_reply, top_k, adaptive_rerun_count, schema_retry_count,
          advice_retry_count, retry_idx, llm_dispatch, schema_issues,
          advice_quality_issues, engine_added, runtime_dynamic_keys,
          engine_schema_contract_loaded, evidence_key_state, questions_started,
          preflights, preflight_artifacts, preflight_rows_by_name, step_idx,
          transform_events, preflight_sig_cache,
          preflight_filtered_to_zero_failures, report_lines, report_file,
          fatal_contract_issues, fatal_advice_gate_issues, runs_started>>

\* the state of the run as a whole
runvars == <<preflight_sig_cache, preflight_filtered_to_zero_failures,
             report_lines, report_file, fatal_contract_issues,
             fatal_advice_gate_issues, runs_started>>

\* the state of key discovery and of the preflight steps
extvars == <<runtime_dynamic_keys, engine_schema_contract_loaded,
             evidence_key_state, questions_started, preflights,
             preflight_artifacts, preflight_rows_by_name, step_idx,
             transform_events, runvars>>

\* the state of one question's answer pipeline
answervars == <<evidence_blocks, allowed_citations, allowed_built, answer,
                last_reply, top_k, adaptive_rerun_count, schema_retry_count,
                advice_retry_count, retry_idx, llm_dispatch, schema_issues,
                advice_quality_issues, engine_added>>

\* _empty_runtime_key_state()
KeyCategories == {"iter_rows_keys", "has_hits_count_keys", "row_count_keys",
                  "path_keys", "line_keys", "snippet_keys"}

empty_runtime_key_state == [c \in KeyCategories |-> <<>>]

\* the run as a whole takes no part in the runs of one operation
RunIdle ==
    /\ preflight_sig_cache = <<>>
    /\ preflight_filtered_to_zero_failures = <<>>
    /\ report_lines = <<>>
    /\ report_file = <<>>
    /\ fatal_contract_issues = <<>>
    /\ fatal_advice_gate_issues = <<>>
    /\ runs_started = 1

\* key discovery and preflight steps take no part in the runs of one answer
ExtIdle ==
    /\ runtime_dynamic_keys = empty_runtime_key_state
    /\ engine_schema_contract_loaded = FALSE
    /\ evidence_key_state = empty_runtime_key_state
    /\ questions_started = 0
    /\ preflights = <<>>
    /\ preflight_artifacts = <<>>
    /\ preflight_rows_by_name = <<>>
    /\ step_idx = 0
    /\ transform_events = <<>>
    /\ RunIdle

-----------------------------------------------------------------------------
(* Bounds of the model *)

\* largest line number occurring in a token
MaxLine == 3
\* largest configured schema_retry_attempts
MaxSchemaRetryAttempts == 2
\* largest configured retrieval breadth (top_k_max, chat_top_k_initial)
MaxTopK == 2
\* questions of one run
MaxQuestions == 2

(* Program constants *)

\* ISSUE_CAPS.get('unknown_citations', 8)
UnknownCitationsCap == 8
\* ISSUE_CAPS.get("deterministic_citations", 5)
DeterministicCitationsCap == 5
\* ISSUE_CAPS.get('invalid_citations', 6)
InvalidCitationsCap == 6
\* ISSUE_CAPS.get('unknown_paths', 10) and ISSUE_CAPS.get('uncited_paths', 10)
PathIssueCap == 10
\* ADVICE_RETRY_ATTEMPTS
AdviceRetryAttempts == 1
\* preflight.group_by_path_defaults: top_n and per_path
GroupByTopN == 5
GroupByPerPath == 5
\* preflight.dynamic_key_discovery.max_keys_per_category
DynamicMaxKeysPerCategory == 64

-----------------------------------------------------------------------------
(* Generic helpers *)

Range(s) == {s[i] : i \in DOMAIN s}

Last(s) == s[Len(s)]

Prefix(s, n) == IF Len(s) <= n THEN s ELSE SubSeq(s, 1, n)

Min2(x, y) == IF x <= y THEN x ELSE y

Max2(x, y) == IF x >= y THEN x ELSE y

RECURSIVE Repeat(_, _)
Repeat(x, n) == IF n = 0 THEN <<>> ELSE <<x>> \o Repeat(x, n - 1)

RECURSIVE Concat(_)
Concat(ss) == IF ss = <<>> THEN <<>> ELSE Head(ss) \o Concat(Tail(ss))

\* list(dict.fromkeys(s)): s without repeated elements, first occurrences kept
RECURSIVE Dedup(_)
Dedup(s) ==
    IF s = <<>> THEN <<>>
    ELSE LET r == Dedup(SubSeq(s, 1, Len(s) - 1))
         IN  IF Last(s) \in Range(r) THEN r ELSE Append(r, Last(s))

-----------------------------------------------------------------------------
(* Paths.  TLC cannot look inside a string, so what the regular expressions *)
(* of the source decide about a path is tabulated over the path universe.   *)

\* q.id of the question being processed
qid == "Q1"

\* f"{qid}_preflight.json": the artifact named by the repair fallback
FallbackArtifact == "Q1_preflight.json"

\* the paths of the model, and the words that t.split(":", 1)[0] can yield for
\* text that is no path, in the order Python's sorted() gives their strings
PathsSorted == << "42", "<text>", "Analysis", "CITATIONS", "NONE",
                  "Q1_preflight.json", "Q1_unsafe.json", "VERDICT", "artifact",
                  "cite=", "file", "path", "section", "src/lib.rs", "src/x.rs" >>

PathRank(p) == CHOOSE i \in DOMAIN PathsSorted : PathsSorted[i] = p

\* _FILE_PATH_PATTERN: a path ending in .rs/.toml/.yaml/.json/.md/.lock/.sh/.py
FILE_PATH_RE(p) == p \in {"Q1_preflight.json", "Q1_unsafe.json", "src/lib.rs", "src/x.rs"}

\* ^\d+(?:\.\d+)?$
is_numeric_path_marker(p) == p \in {"", "42"}

\* strings of the model that contain whitespace (prose)
HasWhitespace(p) == p \in {"<text>"}

is_low_confidence_path_for_audit(p) ==
    \/ p = ""
    \/ is_numeric_path_marker(p)
    \/ p \in {".", ".."}
    \/ HasWhitespace(p)

-----------------------------------------------------------------------------
(* Citation tokens *)

\* A raw token as a model writes it:
\*   deco    the decoration around it, outermost first: "bullet" is a leading
\*           "- ", "tick" a pair of surrounding backticks
\*   pre     its leading prefixes file: path: cite= section: artifact:, in order
\*   path    the path text
\*   a, b    the line and the end of the range (-1: absent)
\*   anchor  TRUE for the form "path::file anchor a:b"
\*   sfx     the number of trailing parenthetical groups " (...)"
RawTok(deco, pre, path, a, b, anchor, sfx) ==
    [deco |-> deco, pre |-> pre, path |-> path, a |-> a, b |-> b,
     anchor |-> anchor, sfx |-> sfx]

\* an undecorated token "pre...path:a-b"
Tok(pre, path, a, b) == RawTok(<<>>, pre, path, a, b, FALSE, 0)

\* a piece of text that is no token: `word` followed by ':' and more text when
\* colon is TRUE, the bare word otherwise
JunkTok(word, colon) ==
    IF colon THEN Tok(<<word>>, "", -1, -1) ELSE Tok(<<>>, word, -1, -1)

\* re.sub(r"^\s*<tag>:\s*", "", t): one leading prefix removed when it is `tag`
StripPrefix(t, tag) ==
    IF t.deco = <<>> /\ t.pre # <<>> /\ Head(t.pre) = tag
    THEN [t EXCEPT !.pre = Tail(@)] ELSE t

\* re.sub(r"^\s*[-*]\s+", "", t): one leading bullet removed
StripBullet(t) ==
    IF t.deco # <<>> /\ Head(t.deco) = "bullet" THEN [t EXCEPT !.deco = Tail(@)] ELSE t

\* t.strip("`"): every backtick at the two ends removed
RECURSIVE StripTicks(_)
StripTicks(t) ==
    IF t.deco # <<>> /\ Head(t.deco) = "tick"
    THEN StripTicks([t EXCEPT !.deco = Tail(@)]) ELSE t

\* re.sub(r"\s*\([^)]*\)\s*$", "", t): one trailing parenthetical removed
StripParen(t) == IF t.sfx > 0 THEN [t EXCEPT !.sfx = @ - 1] ELSE t

\* the m_anchor branch: "path::file anchor a:b" becomes "path:lo-hi"; the text
\* before "::" must hold no colon, so only cite= may remain in front of it
\* variant: the two numbers are kept in the order written
RewriteAnchor_KeepOrder(t) ==
    IF t.anchor /\ t.sfx = 0 /\ \A i \in DOMAIN t.pre : t.pre[i] = "cite"
    THEN [t EXCEPT !.anchor = FALSE] ELSE t

RewriteAnchor(t) ==
    IF t.anchor /\ t.sfx = 0 /\ \A i \in DOMAIN t.pre : t.pre[i] = "cite"
    THEN [t EXCEPT !.anchor = FALSE, !.a = Min2(t.a, t.b), !.b = Max2(t.a, t.b)]
    ELSE t

\* ^R_[A-Z0-9_]+_[A-Za-z0-9_]+\.json$ (no path of the model has this shape)
IsRArtifactName(p) == p \in {"R_Q1_unsafe.json"}

\* ":" in t  (the prefix cite= carries no colon)
HasColon(t) == t.a # -1 \/ \E i \in DOMAIN t.pre : t.pre[i] # "cite"

\* t.split(":", 1)[0]
SplitPath(t) ==
    IF t.deco # <<>> THEN "<text>"
    ELSE IF t.pre = <<>> THEN t.path
    ELSE IF Head(t.pre) = "cite" THEN "cite=" ELSE Head(t.pre)

\* the last branch: a bare R_..._....json name gets ":1"
ImplyFirstLine(t) ==
    IF /\ ~HasColon(t) /\ IsRArtifactName(t.path)
       /\ t.deco = <<>> /\ t.pre = <<>> /\ t.sfx = 0
    THEN [t EXCEPT !.a = 1] ELSE t

normalize_citation_token_for_provenance(tok) ==
    LET t0 == StripTicks(StripBullet(tok))
        t1 == StripPrefix(t0, "file")
        t2 == StripPrefix(t1, "path")
        t3 == StripPrefix(t2, "cite")
        t4 == StripPrefix(t3, "section")
        t5 == StripPrefix(t4, "artifact")
    IN  ImplyFirstLine(RewriteAnchor(StripParen(t5)))

\* re.match(_PATHLINE_PATTERN, t)
PathlineMatch(t) ==
    /\ t.deco = <<>> /\ t.sfx = 0 /\ ~t.anchor
    /\ t.pre = <<>>
    /\ t.a # -1
    /\ t.path # ""
    /\ ~HasWhitespace(t.path)

\* lo, hi = (a, b) if a <= b else (b, a), with b defaulting to a
SpanLo(t) == IF t.b = -1 THEN t.a ELSE Min2(t.a, t.b)

SpanHi(t) == IF t.b = -1 THEN t.a ELSE Max2(t.a, t.b)

\* one match of _CITATION_TOKEN_RE inside the text of token t: at most one
\* leading file:/path: prefix is part of the match, and a :line is required;
\* decoration and parentheticals stay outside the match, and in the anchor
\* form the match is "a:b", a token whose path is a number
CiteLikeMatches(t) ==
    IF t.a = -1 \/ t.path = "" \/ HasWhitespace(t.path) THEN <<>>
    ELSE IF t.anchor THEN << Tok(<<>>, "42", t.b, -1) >>
    ELSE << Tok(IF t.pre # <<>> /\ Last(t.pre) \in {"file", "path"}
                THEN <<Last(t.pre)>> ELSE <<>>,
                t.path, t.a, t.b) >>

(* Order of token strings under Python's sorted() *)

RECURSIVE Digits(_)
Digits(n) == IF n < 10 THEN <<n + 1>> ELSE Digits(n \div 10) \o <<(n % 10) + 1>>

\* the characters after "path:" ('-' sorts before every digit)
LineChars(t) == Digits(t.a) \o (IF t.b = -1 THEN <<>> ELSE <<0>> \o Digits(t.b))

RECURSIVE LexLess(_, _)
LexLess(s, t) ==
    IF s = <<>> THEN t # <<>>
    ELSE IF t = <<>> THEN FALSE
    ELSE IF Head(s) # Head(t) THEN Head(s) < Head(t)
    ELSE LexLess(Tail(s), Tail(t))

TokLess(s, t) ==
    IF s.path # t.path THEN PathRank(s.path) < PathRank(t.path)
    ELSE LexLess(LineChars(s), LineChars(t))

\* sorted(S) for a set S of path:line tokens
RECURSIVE SortedToks(_)
SortedToks(S) ==
    IF S = {} THEN <<>>
    ELSE LET m == CHOOSE x \in S : \A y \in S \ {x} : TokLess(x, y)
         IN  <<m>> \o SortedToks(S \ {m})

\* sorted(S) for a set S of paths
RECURSIVE SortedPaths(_)
SortedPaths(S) ==
    IF S = {} THEN <<>>
    ELSE LET m == CHOOSE x \in S : \A y \in S \ {x} : PathRank(x) < PathRank(y)
         IN  <<m>> \o SortedPaths(S \ {m})

-----------------------------------------------------------------------------
(* Answer text: a sequence of lines *)

Line(k, sep, val, toks, paths) ==
    [k |-> k, sep |-> sep, val |-> val, toks |-> toks, paths |-> paths]

\* "VERDICT<sep><val>"
VerdictLine(sep, val) == Line("verdict", sep, val, <<>>, {})
\* "CITATIONS<sep>tok, tok, ..."
CitationsLine(sep, toks) == Line("citations", sep, "", toks, {})
\* a line holding only the word CITATIONS
CitHeaderLine == Line("citheader", "", "", <<>>, {})
\* a standalone "Analysis:" heading line
HeadingLine == Line("heading", "", "Analysis", <<>>, {})
\* prose that mentions the file paths `paths` and holds the cite-like tokens `toks`
TextLine(paths, toks) == Line("text", "", "", toks, paths)
\* "- tok"
BulletLine(tok) == Line("bullet", "", "", <<tok>>, {})
\* an empty line
BlankLine == Line("blank", "", "", <<>>, {})
\* "KEY=value" lines other than VERDICT/CITATIONS (DETERMINISTIC_NOTE=...)
KeyLine(key) == Line("key", "=", key, <<>>, {})

\* _FILE_PATH_RE.findall(line)
LineFilePaths(ln) ==
    IF ln.k \in {"text", "bullet", "citations"}
    THEN {p \in ln.paths : FILE_PATH_RE(p)}
         \cup {ln.toks[i].path : i \in {j \in DOMAIN ln.toks : FILE_PATH_RE(ln.toks[j].path)}}
    ELSE {}

\* _CITATION_TOKEN_RE.findall(line)
LineCiteLike(ln) ==
    IF ln.k \in {"text", "bullet", "citations"}
    THEN Concat([i \in DOMAIN ln.toks |-> CiteLikeMatches(ln.toks[i])])
    ELSE <<>>

\* [t.strip() for t in line.split(",") if t.strip()] for a whole line
LineAsTokens(ln) ==
    CASE ln.k = "verdict"   -> <<JunkTok("VERDICT", ln.sep = ":")>>
      [] ln.k = "citations" ->
            <<JunkTok("CITATIONS", ln.sep = ":" \/ (ln.toks # <<>> /\ HasColon(Head(ln.toks))))>>
            \o (IF ln.toks = <<>> THEN <<>> ELSE Tail(ln.toks))
      [] ln.k = "citheader" -> <<JunkTok("CITATIONS", FALSE)>>
      [] ln.k = "heading"   -> <<JunkTok(ln.val, TRUE)>>
      [] ln.k = "text"      -> <<JunkTok("<text>", ln.toks # <<>>)>>
      [] ln.k = "bullet"    -> ln.toks
      [] ln.k = "key"       -> <<JunkTok(ln.val, FALSE)>>
      [] OTHER              -> <<>>

\* indices of the lines of `ans` whose kind is in K
LinesOfKind(ans, K) == {i \in DOMAIN ans : ans[i].k \in K}

MinOf(S) == CHOOSE x \in S : \A y \in S : x <= y

\* the first non-blank line after line i, as tokens: what "\s*(.*)$" captures
\* after an empty "CITATIONS=" (\s* runs over the line break)
Spill(ans, i) ==
    LET later == {j \in DOMAIN ans : j > i /\ ans[j].k # "blank"}
    IN  IF later = {} THEN <<>> ELSE LineAsTokens(ans[MinOf(later)])

\* the paragraph after line i: after.split("\n\n")[0]
ParagraphAfter(ans, i) ==
    LET blanks == {j \in DOMAIN ans : j > i + 1 /\ ans[j].k = "blank"}
        stop == IF blanks = {} THEN Len(ans) ELSE MinOf(blanks) - 1
    IN  IF stop <= i THEN <<>> ELSE SubSeq(ans, i + 1, stop)

extract_answer_citation_tokens(ans) ==
    LET m == LinesOfKind(ans, {"citations"})
        hdr == LinesOfKind(ans, {"citheader"})
        citations_raw ==
            IF m # {}
            THEN LET i == MinOf(m)
                 IN  IF ans[i].toks # <<>> THEN ans[i].toks ELSE Spill(ans, i)
            ELSE IF hdr # {}
            THEN LET para == ParagraphAfter(ans, MinOf(hdr))
                 IN  Concat([j \in DOMAIN para |-> LineCiteLike(para[j])])
            ELSE <<>>
    IN  [i \in DOMAIN citations_raw |->
            normalize_citation_token_for_provenance(citations_raw[i])]

-----------------------------------------------------------------------------
(* Evidence blocks: "[Preflight name]:\nCITE=<cite>\n<rendered rows>"          *)
(* cite: the CITE= token; toks: the cite-like tokens of the rendered rows, in *)
(* text order; paths: the bare file paths of the rendered rows.               *)

\* _CITATION_TOKEN_RE.findall("\n".join(evidence_blocks))
EvidenceCiteLike(blocks) ==
    Concat([i \in DOMAIN blocks |->
              CiteLikeMatches(blocks[i].cite)
              \o Concat([j \in DOMAIN blocks[i].toks |-> CiteLikeMatches(blocks[i].toks[j])])])

\* re.finditer(r"\bCITE\s*=\s*([^\s]+)", blob)
EvidenceCiteHeaders(blocks) == [i \in DOMAIN blocks |-> blocks[i].cite]

\* _FILE_PATH_RE.findall(blob)
EvidenceFilePaths(blocks) ==
    UNION {
        {p \in blocks[i].paths \cup {blocks[i].cite.path} : FILE_PATH_RE(p)}
        \cup {blocks[i].toks[j].path : j \in {n \in DOMAIN blocks[i].toks : FILE_PATH_RE(blocks[i].toks[n].path)}}
        : i \in DOMAIN blocks }

extract_allowed_citation_tokens(blocks) ==
    LET raw == EvidenceCiteLike(blocks)
        nt(i) == normalize_citation_token_for_provenance(raw[i])
    IN  { nt(i) : i \in {j \in DOMAIN raw :
                            /\ PathlineMatch(nt(j))
                            /\ ~is_low_confidence_path_for_audit(nt(j).path)} }

-----------------------------------------------------------------------------
(* Citation provenance gate *)

Issue(gate, kind, detail) == [gate |-> gate, kind |-> kind, detail |-> detail]

\* _is_known, the inner function of _unknown_citation_tokens
\* variant: only the exact token is known
is_known_ExactOnly(tok, allowed) == tok \in allowed

is_known(tok, allowed) ==
    \/ tok \in allowed
    \/ /\ PathlineMatch(tok)
       /\ \/ \E al \in allowed :
                /\ PathlineMatch(al)
                /\ al.path = tok.path
                /\ ~(SpanHi(tok) < SpanLo(al) \/ SpanHi(al) < SpanLo(tok))
          \/ \E al \in allowed : PathlineMatch(al) /\ al.path = tok.path

\* variant: every well-formed token counts as known
unknown_citation_tokens_WellFormedKnown(tokens, allowed) ==
    SelectSeq(tokens, LAMBDA t : ~(t \in allowed \/ PathlineMatch(t)))

unknown_citation_tokens(tokens, allowed) ==
    IF tokens = <<>> THEN <<>>
    ELSE IF allowed = {} THEN tokens
    ELSE SelectSeq(tokens, LAMBDA t : ~is_known(t, allowed))

\* variant: no check for an empty allowed set
validate_citations_from_evidence_NoEmptyCheck(ans, allowed) ==
    LET tokens == extract_answer_citation_tokens(ans)
        unknown == unknown_citation_tokens(tokens, allowed)
    IN  IF unknown # <<>>
        THEN << Issue("provenance", "unknown_citation_tokens",
                      Prefix(unknown, UnknownCitationsCap)) >>
        ELSE <<>>

validate_citations_from_evidence(ans, allowed) ==
    IF allowed = {}
    THEN << Issue("provenance", "no_citeable_tokens", <<>>) >>
    ELSE LET tokens == extract_answer_citation_tokens(ans)
             unknown == unknown_citation_tokens(tokens, allowed)
         IN  IF tokens = <<>> THEN <<>>
             ELSE IF unknown # <<>>
             THEN << Issue("provenance", "unknown_citation_tokens",
                           Prefix(unknown, UnknownCitationsCap)) >>
             ELSE <<>>

-----------------------------------------------------------------------------
(* Schema gate: core/validation.py::validate_response_schema *)

\* [A-Z_]+
VerdictIsUpper(val) == val \in {"TRUE_POSITIVE", "FALSE_POSITIVE", "INDETERMINATE", "MAYBE"}

\* lines of the answer that are not blank: nonempty_lines
NonemptyLines(ans) == SelectSeq(ans, LAMBDA ln : ln.k # "blank")

\* (?mi)^\s*(?:#{1,6}\s*)?(?:analysis|citations)\s*:\s*$
\* variant: no line counts as a banned heading
IsBannedHeading_Never(ln) == FALSE

IsBannedHeading(ln) ==
    \/ ln.k = "heading"
    \/ ln.k = "citations" /\ ln.sep = ":" /\ ln.toks = <<>>

\* re.finditer(r"^\s*VERDICT\s*[=:]\s*([A-Z_]+)\s*$", clean): the matching lines
VerdictMatches(ans) ==
    SelectSeq(ans, LAMBDA ln : ln.k = "verdict" /\ VerdictIsUpper(ln.val))

\* start lines of re.finditer(r"^\s*CITATIONS\s*[=:]\s*(.*)$", clean) from line i
\* on: a match of an empty CITATIONS line runs on over the next non-blank line
RECURSIVE CitationMatchesFrom(_, _)
CitationMatchesFrom(ans, i) ==
    IF i > Len(ans) THEN <<>>
    ELSE IF ans[i].k # "citations" THEN CitationMatchesFrom(ans, i + 1)
    ELSE IF ans[i].toks # <<>> THEN <<i>> \o CitationMatchesFrom(ans, i + 1)
    ELSE LET later == {j \in DOMAIN ans : j > i /\ ans[j].k # "blank"}
         IN  IF later = {} THEN <<i>>
             ELSE <<i>> \o CitationMatchesFrom(ans, MinOf(later) + 1)

\* x.strip().strip("`") and the two prefix substitutions the schema gate
\* applies to a CITATIONS token
SchemaTokenStrip(t) ==
    LET t0 == StripTicks(t)
        t1 == IF t0.deco = <<>> /\ t0.pre # <<>>
                 /\ Head(t0.pre) \in {"file", "path", "artifact", "section"}
              THEN [t0 EXCEPT !.pre = Tail(@)] ELSE t0
    IN  StripPrefix(t1, "cite")

validate_response_schema(ans, validation) ==
    LET nonempty_lines == NonemptyLines(ans)
        verdict_matches == VerdictMatches(ans)
        citation_matches == CitationMatchesFrom(ans, 1)
        citations_raw ==
            IF citation_matches = <<>> THEN <<>>
            ELSE LET i == citation_matches[1]
                 IN  IF ans[i].toks # <<>> THEN ans[i].toks ELSE Spill(ans, i)
        stripped == [i \in DOMAIN citations_raw |-> SchemaTokenStrip(citations_raw[i])]
        bad == SelectSeq(stripped, LAMBDA t : ~PathlineMatch(t))
    IN
        (IF nonempty_lines = <<>>
            \/ ~(nonempty_lines[1].k = "verdict" /\ VerdictIsUpper(nonempty_lines[1].val))
         THEN << Issue("schema", "first_line_not_verdict", <<>>) >> ELSE <<>>)
     \o (IF Len(nonempty_lines) < 2
            \/ ~(nonempty_lines[2].k = "citations" /\ nonempty_lines[2].toks # <<>>)
         THEN << Issue("schema", "second_line_not_citations", <<>>) >> ELSE <<>>)
     \o (IF \E i \in DOMAIN ans : IsBannedHeading(ans[i])
         THEN << Issue("schema", "standalone_header", <<>>) >> ELSE <<>>)
     \o (IF verdict_matches = <<>>
         THEN << Issue("schema", "missing_verdict", <<>>) >>
         ELSE (IF validation.required_verdicts # {}
                  /\ verdict_matches[1].val \notin validation.required_verdicts
               THEN << Issue("schema", "invalid_verdict", <<>>) >> ELSE <<>>)
           \o (IF Len(verdict_matches) > 1
               THEN << Issue("schema", "verdict_not_once", <<>>) >> ELSE <<>>))
     \o (IF citation_matches = <<>>
         THEN (IF LinesOfKind(ans, {"citheader"}) # {}
               THEN << Issue("schema", "standalone_citations_section", <<>>) >> ELSE <<>>)
           \o << Issue("schema", "missing_citations", <<>>) >>
         ELSE IF Len(citation_matches) > 1
         THEN << Issue("schema", "citations_not_once", <<>>) >> ELSE <<>>)
     \o (IF validation.fail_on_missing_citations /\ citations_raw = <<>>
         THEN << Issue("schema", "citations_empty", <<>>) >> ELSE <<>>)
     \o (IF bad # <<>>
         THEN << Issue("schema", "invalid_tokens", Prefix(bad, InvalidCitationsCap)) >>
         ELSE <<>>)

-----------------------------------------------------------------------------
(* Path gates A and B *)

\* keeps the lines that do not start with VERDICT or CITATIONS
strip_schema_header_lines(ans) ==
    SelectSeq(ans, LAMBDA ln : ln.k \notin {"verdict", "citations", "citheader"})

\* set(_FILE_PATH_RE.findall(body))
\* variant: no path is found in the body
MentionedPaths_None(body) == {}

MentionedPaths(body) == UNION {LineFilePaths(body[i]) : i \in DOMAIN body}

\* {t.split(":", 1)[0] for t in cited_tokens if ":" in t}
CitedPaths(cited_tokens) ==
    {SplitPath(cited_tokens[i]) : i \in {j \in DOMAIN cited_tokens : HasColon(cited_tokens[j])}}

extract_allowed_paths_from_evidence(blocks) ==
    LET raw == EvidenceCiteLike(blocks)
        hdr == EvidenceCiteHeaders(blocks)
        FromTok(t) ==
            LET nt == normalize_citation_token_for_provenance(t)
            IN  IF HasColon(nt)
                THEN IF is_low_confidence_path_for_audit(SplitPath(nt)) THEN {} ELSE {SplitPath(nt)}
                ELSE {}
        FromHeader(t) ==
            LET nt == normalize_citation_token_for_provenance(t)
            IN  IF HasColon(nt) THEN FromTok(t)
                ELSE IF FILE_PATH_RE(nt.path) /\ ~is_low_confidence_path_for_audit(nt.path)
                THEN {nt.path} ELSE {}
    IN  UNION {FromTok(raw[i]) : i \in DOMAIN raw}
        \cup UNION {FromHeader(hdr[i]) : i \in DOMAIN hdr}
        \cup {p \in EvidenceFilePaths(blocks) : ~is_low_confidence_path_for_audit(p)}

validate_path_gates(ans, blocks, validation) ==
    IF ~(validation.enforce_no_new_paths \/ validation.enforce_paths_must_be_cited)
    THEN <<>>
    ELSE
    LET allowed_paths == extract_allowed_paths_from_evidence(blocks)
        cited_tokens == extract_answer_citation_tokens(ans)
        cited_paths == CitedPaths(cited_tokens)
        mentioned_paths == MentionedPaths(strip_schema_header_lines(ans))
        referenced == mentioned_paths \cup cited_paths
        unknown == {p \in referenced : p # "" /\ p \notin allowed_paths}
        uncited == {p \in mentioned_paths : p # "" /\ p \notin cited_paths}
    IN
        (IF ~validation.enforce_no_new_paths THEN <<>>
         ELSE IF referenced # {} /\ allowed_paths = {}
         THEN << Issue("gate_a", "cannot_validate", <<>>) >>
         ELSE IF unknown # {}
         THEN << Issue("gate_a", "paths_not_in_evidence",
                       Prefix(SortedPaths(unknown), PathIssueCap)) >>
         ELSE <<>>)
     \o (IF validation.enforce_paths_must_be_cited /\ uncited # {}
         THEN << Issue("gate_b", "paths_not_cited",
                       Prefix(SortedPaths(uncited), PathIssueCap)) >>
         ELSE <<>>)

-----------------------------------------------------------------------------
(* The gate set of one probe: _run_single::_compute_schema_issues_local *)

compute_schema_issues_local(answer_text, blocks, allowed, validation) ==
    validate_response_schema(answer_text, validation)
    \o (IF validation.enforce_citations_from_evidence
        THEN validate_citations_from_evidence(answer_text, allowed) ELSE <<>>)
    \o validate_path_gates(answer_text, blocks, validation)

-----------------------------------------------------------------------------
(* Deterministic repairs *)

RECURSIVE TrimLeadingBlank(_)
TrimLeadingBlank(s) ==
    IF s = <<>> \/ Head(s).k # "blank" THEN s ELSE TrimLeadingBlank(Tail(s))

RECURSIVE TrimTrailingBlank(_)
TrimTrailingBlank(s) ==
    IF s = <<>> \/ Last(s).k # "blank" THEN s
    ELSE TrimTrailingBlank(SubSeq(s, 1, Len(s) - 1))

\* "\n".join(lines).strip()
StripText(s) == TrimTrailingBlank(TrimLeadingBlank(s))

\* (t or "").strip().upper() in citation_placeholders
IsCitationPlaceholder(t) ==
    t.pre = <<>> /\ t.a = -1 /\ t.path \in {"NONE", "N/A", "NA", "INSUFFICIENT", "UNKNOWN", "MISSING"}

\* the fallback citation f"{qid}_preflight.json:1"
FallbackCitation == Tok(<<>>, FallbackArtifact, 1, -1)

\* the CITATIONS tokens of a deterministic header: the first `cap` allowed tokens
\* in sorted order, or the fallback anchor when there is none
\* variant: the fallback anchor is appended whatever the evidence holds
DeterministicCitations_WithFallback(ordered_allowed, cap) ==
    Prefix(ordered_allowed, cap) \o <<FallbackCitation>>

DeterministicCitations(ordered_allowed, cap) ==
    IF ordered_allowed # <<>> THEN Prefix(ordered_allowed, cap) ELSE <<FallbackCitation>>

\* _repair_answer_for_strict_contract; `pick` is the element next(iter(required))
\* yields.  Returns the repaired answer, the notes and the citation tokens the
\* repair wrote that the answer did not cite.
repair_answer_for_strict_contract(ans, strict_template, blocks, validation, pick) ==
    IF ~strict_template THEN [answer |-> ans, notes |-> {}, added |-> {}]
    ELSE
    LET required == validation.required_verdicts
        mv == VerdictMatches(ans)
        verdict0 == IF mv # <<>> THEN mv[1].val ELSE ""
        bad_verdict == verdict0 = "" \/ (required # {} /\ verdict0 \notin required)
        verdict == IF ~bad_verdict THEN verdict0
                   ELSE IF "INDETERMINATE" \in required THEN "INDETERMINATE"
                   ELSE IF required # {} THEN pick ELSE "INDETERMINATE"
        tokens == extract_answer_citation_tokens(ans)
        has_placeholder_only ==
            tokens # <<>> /\ \A i \in DOMAIN tokens : IsCitationPlaceholder(tokens[i])
        has_bad_format == \E i \in DOMAIN tokens : ~PathlineMatch(tokens[i])
        allowed == extract_allowed_citation_tokens(blocks)
        prov == IF validation.enforce_citations_from_evidence
                THEN validate_citations_from_evidence(ans, allowed) ELSE <<>>
        needs_citations_repair ==
            tokens = <<>> \/ has_placeholder_only \/ has_bad_format \/ prov # <<>>
        ordered_allowed == SortedToks({t \in allowed : PathlineMatch(t)})
        citations_out ==
            IF needs_citations_repair
            THEN DeterministicCitations(ordered_allowed, Max2(1, DeterministicCitationsCap))
            ELSE tokens
        body_lines ==
            SelectSeq(ans, LAMBDA ln : ln.k \notin {"verdict", "citations", "citheader"})
        body == StripText(body_lines)
        repaired ==
            << VerdictLine("=", verdict), CitationsLine("=", citations_out) >>
            \o (IF body = <<>> THEN <<>> ELSE <<BlankLine>> \o body)
    IN  [answer |-> repaired,
         notes  |-> (IF bad_verdict THEN {"repaired_verdict"} ELSE {})
                    \cup (IF needs_citations_repair THEN {"repaired_citations"} ELSE {}),
         added  |-> IF needs_citations_repair THEN Range(citations_out) ELSE {}]

\* _extract_evidence_citation_tokens_by_path(evidence_blocks).get(p): the tokens
\* of path p in the order they were first seen
EvidenceTokensForPath(blocks, p) ==
    LET raw == EvidenceCiteLike(blocks) \o EvidenceCiteHeaders(blocks)
        norm == [i \in DOMAIN raw |-> normalize_citation_token_for_provenance(raw[i])]
    IN  Dedup(SelectSeq(norm, LAMBDA nt :
                /\ HasColon(nt)
                /\ SplitPath(nt) = p
                /\ p # ""
                /\ ~is_low_confidence_path_for_audit(p)))

\* the loop "for p in missing_paths" that collects the tokens to add
RECURSIVE CollectAdded(_, _, _, _)
CollectAdded(missing_paths, blocks, cited_tokens, added) ==
    IF missing_paths = <<>> THEN added
    ELSE LET toks == EvidenceTokensForPath(blocks, Head(missing_paths))
             next == IF toks # <<>>
                        /\ toks[1] \notin Range(cited_tokens)
                        /\ toks[1] \notin Range(added)
                     THEN Append(added, toks[1]) ELSE added
         IN  CollectAdded(Tail(missing_paths), blocks, cited_tokens, next)

\* the rewrite of one line that matches ^\s*\*{0,2}CITATIONS\*{0,2}\s*=
MergeIntoCitationsLine(ln, added) ==
    LET existing == ln.toks
    IN  [ln EXCEPT !.toks = existing \o SelectSeq(added, LAMBDA t : t \notin Range(existing))]

\* out2: new_line put after the first line matching ^\s*\*{0,2}VERDICT\*{0,2}\s*=,
\* or in front of the answer when there is none
InsertCitationsLine(lines, new_line) ==
    LET v == {i \in DOMAIN lines : lines[i].k = "verdict" /\ lines[i].sep = "="}
    IN  IF v = {} THEN <<new_line>> \o lines
        ELSE SubSeq(lines, 1, MinOf(v)) \o <<new_line>>
             \o SubSeq(lines, MinOf(v) + 1, Len(lines))

auto_complete_citations_for_path_gates(ans, blocks, validation) ==
    IF ~validation.enforce_paths_must_be_cited \/ ans = <<>> \/ blocks = <<>>
    THEN [answer |-> ans, added |-> <<>>]
    ELSE
    LET mentioned_paths == SortedPaths(MentionedPaths(strip_schema_header_lines(ans)))
        cited_tokens == extract_answer_citation_tokens(ans)
        cited_paths == CitedPaths(cited_tokens)
        missing_paths == SelectSeq(mentioned_paths, LAMBDA p : p # "" /\ p \notin cited_paths)
        added == CollectAdded(missing_paths, blocks, cited_tokens, <<>>)
        IsCitEq(ln) == ln.k = "citations" /\ ln.sep = "="
        updated == \E i \in DOMAIN ans : IsCitEq(ans[i])
        out == [i \in DOMAIN ans |->
                   IF IsCitEq(ans[i]) THEN MergeIntoCitationsLine(ans[i], added) ELSE ans[i]]
        new_line == CitationsLine("=", cited_tokens \o added)
    IN  IF added = <<>> THEN [answer |-> ans, added |-> <<>>]
        ELSE [answer |-> StripText(IF updated THEN out ELSE InsertCitationsLine(out, new_line)),
              added  |-> added]

\* PROMPT_DETERMINISTIC.get("verdict", "INDETERMINATE")
deterministic_verdict == "INDETERMINATE"

build_deterministic_seed_answer(blocks) ==
    LET tokens == SortedToks(extract_allowed_citation_tokens(blocks))
    IN  << VerdictLine("=", deterministic_verdict),
           CitationsLine("=", DeterministicCitations(tokens, DeterministicCitationsCap)),
           BlankLine,
           KeyLine("DETERMINISTIC_NOTE") >>

\* PROMPTS.get("evidence_empty_answer", "**NOT FOUND**\n\nDeterministic evidence
\* extraction returned no results. Model call skipped.")
evidence_empty_answer == << TextLine({}, <<>>), BlankLine, TextLine({}, <<>>) >>

-----------------------------------------------------------------------------
(* Inputs of the orchestrator: evidence, configuration, model answers *)

UsableBlock(cite, toks, paths) ==
    [cite |-> cite, toks |-> toks, paths |-> paths, usable |-> TRUE]

\* "[name] 0 results (filtered N raw hits; ...)" under its CITE= line
FilteredToZeroBlock(cite) ==
    [cite |-> cite, toks |-> <<>>, paths |-> {}, usable |-> FALSE]

\* cite_tok = f"{q.id}_{name}.json:1" for the preflight step "unsafe"
ArtifactAnchor == Tok(<<>>, "Q1_unsafe.json", 1, -1)

\* evidence_is_empty, variant: only a question without any block counts
evidence_is_empty_NoBlocks(blocks) == blocks = <<>>

\* evidence_is_empty = (usable_evidence_blocks == 0)
evidence_is_empty(blocks) == \A i \in DOMAIN blocks : ~blocks[i].usable

EvidenceUniverse ==
    { <<>>,
      << UsableBlock(ArtifactAnchor, <<>>, {"src/x.rs"}) >>,
      << UsableBlock(ArtifactAnchor, << Tok(<<>>, "src/lib.rs", 1, MaxLine) >>, {}) >>,
      << FilteredToZeroBlock(ArtifactAnchor) >> }

DefaultVerdicts == {"TRUE_POSITIVE", "FALSE_POSITIVE", "INDETERMINATE"}

\* (enforce_citations_from_evidence, enforce_no_new_paths, enforce_paths_must_be_cited)
GateProfiles == { <<FALSE, FALSE, FALSE>>, <<TRUE, TRUE, FALSE>>, <<TRUE, TRUE, TRUE>> }

\* (answer_mode, advice_mode, mission_advice_gate_enabled)
ModeProfiles == { <<"llm", "none", FALSE>>, <<"llm", "llm", FALSE>>,
                  <<"llm", "llm", TRUE>>, <<"deterministic", "none", FALSE>> }

\* (evidence_empty_gate, STRICT_FAIL_ON_EMPTY_EVIDENCE and STRICT_EMPTY_EVIDENCE_FAIL_FAST)
EmptyEvidenceProfiles == { <<TRUE, TRUE>>, <<TRUE, FALSE>>, <<FALSE, FALSE>> }

\* (adaptive_top_k, chat_top_k_initial, top_k_max)
TopKProfiles == { <<FALSE, 1, MaxTopK>>, <<TRUE, 1, MaxTopK>>,
                  <<TRUE, MaxTopK, MaxTopK>>, <<TRUE, MaxTopK, 1>> }

Configs ==
    { [ strict_response_template         |-> st,
        required_verdicts                |-> DefaultVerdicts,
        fail_on_missing_citations        |-> TRUE,
        enforce_citations_from_evidence  |-> g[1],
        enforce_no_new_paths             |-> g[2],
        enforce_paths_must_be_cited      |-> g[3],
        adaptive_top_k                   |-> k[1],
        chat_top_k_initial               |-> k[2],
        top_k_max                        |-> k[3],
        schema_retry_attempts            |-> sr,
        answer_mode                      |-> m[1],
        advice_mode                      |-> m[2],
        mission_advice_gate_enabled      |-> m[3],
        evidence_empty_gate              |-> e[1],
        strict_empty_evidence_abort      |-> e[2] ] :
        st \in BOOLEAN, g \in GateProfiles, k \in TopKProfiles,
        sr \in {0, MaxSchemaRetryAttempts},
        m \in ModeProfiles, e \in EmptyEvidenceProfiles }

\* the answers the model (or the deterministic synthesizer plugin) may return
ModelAnswers ==
    { \* the clean shape: valid header, the artifact anchor cited, a row path in the body
      << VerdictLine("=", "TRUE_POSITIVE"), CitationsLine("=", <<ArtifactAnchor>>),
         BlankLine, TextLine({"src/x.rs"}, <<>>) >>,
      \* valid header and a body without any path
      << VerdictLine("=", "TRUE_POSITIVE"), CitationsLine("=", <<ArtifactAnchor>>),
         BlankLine, TextLine({}, <<>>) >>,
      \* cites a line of src/lib.rs and mentions it
      << VerdictLine("=", "FALSE_POSITIVE"),
         CitationsLine("=", << Tok(<<>>, "src/lib.rs", 2, -1) >>),
         TextLine({"src/lib.rs"}, <<>>) >>,
      \* banned heading, verdict outside the allow-list, placeholder citation
      << HeadingLine, VerdictLine("=", "MAYBE"),
         CitationsLine("=", << Tok(<<>>, "NONE", -1, -1) >>),
         TextLine({"src/lib.rs"}, <<>>) >>,
      \* no CITATIONS line at all
      << VerdictLine(":", "TRUE_POSITIVE"), TextLine({"src/lib.rs"}, <<>>) >>,
      \* nothing
      <<>> }

-----------------------------------------------------------------------------
(* The per-question pipeline of _run_single, from gathered evidence on *)

\* advice_retry_attempts
advice_retry_attempts(c) ==
    IF c.mission_advice_gate_enabled THEN AdviceRetryAttempts ELSE 0

Probe(ans) == compute_schema_issues_local(ans, evidence_blocks, allowed_citations, cfg)

InitQuestion ==
    /\ pc = "gathered"
    /\ cfg \in Configs
    /\ evidence_blocks \in EvidenceUniverse
    \* the non-default empty-evidence policies are explored on empty evidence only
    /\ evidence_is_empty(evidence_blocks)
          \/ (cfg.evidence_empty_gate /\ cfg.strict_empty_evidence_abort)
    /\ allowed_citations = {}
    /\ allowed_built = FALSE
    /\ answer = <<>>
    /\ last_reply = <<>>
    /\ top_k = 0
    /\ adaptive_rerun_count = 0
    /\ schema_retry_count = 0
    /\ advice_retry_count = 0
    /\ retry_idx = 0
    /\ llm_dispatch = <<>>
    /\ schema_issues = <<>>
    /\ advice_quality_issues = FALSE
    /\ engine_added = {}
    /\ ExtIdle

\* allowed_citations_by_q[q.id] = _extract_allowed_citation_tokens(evidence_blocks)
\* variant: the allowed set is not built
BuildAllowedTokens_Skipped == UNCHANGED <<extvars, allowed_citations, allowed_built>>

BuildAllowedTokens ==
    IF cfg.enforce_citations_from_evidence
    THEN /\ allowed_citations' = extract_allowed_citation_tokens(evidence_blocks)
         /\ allowed_built' = TRUE
    ELSE UNCHANGED <<extvars, allowed_citations, allowed_built>>

\* lines 5500-5659: the allowed set is built, then the strict evidence gate
PrepareQuestion ==
    /\ pc = "gathered"
    /\ BuildAllowedTokens
    /\ pc' = IF cfg.strict_empty_evidence_abort /\ evidence_is_empty(evidence_blocks)
             THEN "aborted" ELSE "chat"
    /\ UNCHANGED <<extvars, cfg, evidence_blocks, answer, last_reply, top_k,
                   adaptive_rerun_count, schema_retry_count, advice_retry_count,
                   retry_idx, llm_dispatch, schema_issues, advice_quality_issues,
                   engine_added>>

\* answer_mode == "deterministic": the plugin synthesizer's answer, or the seed
DeterministicAnswer ==
    /\ pc = "chat"
    /\ cfg.answer_mode = "deterministic"
    /\ \E det_answer \in ModelAnswers :
          IF det_answer = <<>>
          THEN LET seed == build_deterministic_seed_answer(evidence_blocks)
               IN  /\ answer' = seed
                   /\ engine_added' = engine_added \cup Range(seed[2].toks)
          ELSE /\ answer' = det_answer
               /\ UNCHANGED engine_added
    /\ pc' = "chat_done"
    /\ UNCHANGED <<extvars, cfg, evidence_blocks, allowed_citations, allowed_built,
                   last_reply, top_k, adaptive_rerun_count, schema_retry_count,
                   advice_retry_count, retry_idx, llm_dispatch, schema_issues,
                   advice_quality_issues>>

\* args.evidence_empty_gate and evidence_is_empty: NOT FOUND, model call skipped
EvidenceEmptyGate ==
    /\ pc = "chat"
    /\ cfg.answer_mode # "deterministic"
    /\ cfg.evidence_empty_gate /\ evidence_is_empty(evidence_blocks)
    /\ answer' = evidence_empty_answer
    /\ pc' = "chat_done"
    /\ UNCHANGED <<extvars, cfg, evidence_blocks, allowed_citations, allowed_built,
                   last_reply, top_k, adaptive_rerun_count, schema_retry_count,
                   advice_retry_count, retry_idx, llm_dispatch, schema_issues,
                   advice_quality_issues, engine_added>>

\* top_k = min(top_k_initial, top_k_max) if args.adaptive_top_k else top_k_max
InitialTopK(c) ==
    IF c.adaptive_top_k THEN Min2(Max2(1, c.chat_top_k_initial), c.top_k_max)
    ELSE c.top_k_max

\* the primary model call
PrimaryCall ==
    /\ pc = "chat"
    /\ cfg.answer_mode # "deterministic"
    /\ ~(cfg.evidence_empty_gate /\ evidence_is_empty(evidence_blocks))
    /\ top_k' = InitialTopK(cfg)
    /\ \E reply \in ModelAnswers : answer' = reply /\ last_reply' = reply
    /\ llm_dispatch' = Append(llm_dispatch, "primary")
    /\ pc' = "adaptive_check"
    /\ UNCHANGED <<extvars, cfg, evidence_blocks, allowed_citations, allowed_built,
                   adaptive_rerun_count, schema_retry_count, advice_retry_count,
                   retry_idx, schema_issues, advice_quality_issues, engine_added>>

\* if args.adaptive_top_k and top_k < top_k_max and schema_issues
\* variant: the rerun does not look at the probe of the first answer
AdaptiveRerunFires_NoProbe == cfg.adaptive_top_k /\ top_k < cfg.top_k_max

AdaptiveRerunFires ==
    cfg.adaptive_top_k /\ top_k < cfg.top_k_max /\ Probe(answer) # <<>>

\* the adaptive rerun: one more model call at top_k_max, replacing chat_json
AdaptiveRerun ==
    /\ pc = "adaptive_check"
    /\ AdaptiveRerunFires
    /\ adaptive_rerun_count' = adaptive_rerun_count + 1
    /\ top_k' = cfg.top_k_max
    /\ \E reply \in ModelAnswers : answer' = reply /\ last_reply' = reply
    /\ llm_dispatch' = Append(llm_dispatch, "adaptive_rerun")
    /\ retry_idx' = 1
    /\ pc' = "schema_loop"
    /\ UNCHANGED <<extvars, cfg, evidence_blocks, allowed_citations, allowed_built,
                   schema_retry_count, advice_retry_count, schema_issues,
                   advice_quality_issues, engine_added>>

NoAdaptiveRerun ==
    /\ pc = "adaptive_check"
    /\ ~AdaptiveRerunFires
    /\ retry_idx' = 1
    /\ pc' = "schema_loop"
    /\ UNCHANGED <<extvars, cfg, evidence_blocks, allowed_citations, allowed_built, answer,
                   last_reply, top_k, adaptive_rerun_count, schema_retry_count,
                   advice_retry_count, llm_dispatch, schema_issues,
                   advice_quality_issues, engine_added>>

\* for retry_idx in range(1, schema_retry_attempts + 1) has another iteration
\* variant: the loop has no upper bound
SchemaLoopActive_Unbounded == cfg.schema_retry_attempts > 0

SchemaLoopActive == cfg.schema_retry_attempts > 0 /\ retry_idx <= cfg.schema_retry_attempts

\* one iteration whose probe finds issues: the schema retry model call
SchemaRetry ==
    /\ pc = "schema_loop"
    /\ SchemaLoopActive
    /\ Probe(answer) # <<>>
    /\ schema_retry_count' = schema_retry_count + 1
    /\ \E reply \in ModelAnswers : answer' = reply /\ last_reply' = reply
    /\ llm_dispatch' = Append(llm_dispatch, "schema_retry")
    /\ retry_idx' = retry_idx + 1
    /\ UNCHANGED <<extvars, pc, cfg, evidence_blocks, allowed_citations, allowed_built,
                   top_k, adaptive_rerun_count, advice_retry_count, schema_issues,
                   advice_quality_issues, engine_added>>

\* one iteration whose probe is clean: break
SchemaRetrySatisfied ==
    /\ pc = "schema_loop"
    /\ SchemaLoopActive
    /\ Probe(answer) = <<>>
    /\ pc' = "chat_done"
    /\ UNCHANGED <<extvars, cfg, evidence_blocks, allowed_citations, allowed_built, answer,
                   last_reply, top_k, adaptive_rerun_count, schema_retry_count,
                   advice_retry_count, retry_idx, llm_dispatch, schema_issues,
                   advice_quality_issues, engine_added>>

\* the loop is not entered, or its range is exhausted
\* variant: an exhausted loop goes back to the primary call
SchemaLoopExit_Reenter ==
    /\ pc = "schema_loop"
    /\ ~SchemaLoopActive
    /\ pc' = "chat"
    /\ UNCHANGED <<extvars, cfg, evidence_blocks, allowed_citations, allowed_built, answer,
                   last_reply, top_k, adaptive_rerun_count, schema_retry_count,
                   advice_retry_count, retry_idx, llm_dispatch, schema_issues,
                   advice_quality_issues, engine_added>>

SchemaLoopExit ==
    /\ pc = "schema_loop"
    /\ ~SchemaLoopActive
    /\ pc' = "chat_done"
    /\ UNCHANGED <<extvars, cfg, evidence_blocks, allowed_citations, allowed_built, answer,
                   last_reply, top_k, adaptive_rerun_count, schema_retry_count,
                   advice_retry_count, retry_idx, llm_dispatch, schema_issues,
                   advice_quality_issues, engine_added>>

\* lines 5973-5994: strict contract repair of the final answer
StrictContractRepair ==
    /\ pc = "chat_done"
    /\ \E pick \in cfg.required_verdicts :
          LET r == repair_answer_for_strict_contract(
                       answer, cfg.strict_response_template, evidence_blocks, cfg, pick)
          IN  IF cfg.answer_mode = "llm" /\ cfg.strict_response_template
              THEN /\ answer' = r.answer
                   /\ engine_added' = engine_added \cup r.added
              ELSE UNCHANGED <<extvars, answer, engine_added>>
    /\ pc' = "gate_b_repair"
    /\ UNCHANGED <<extvars, cfg, evidence_blocks, allowed_citations, allowed_built,
                   last_reply, top_k, adaptive_rerun_count, schema_retry_count,
                   advice_retry_count, retry_idx, llm_dispatch, schema_issues,
                   advice_quality_issues>>

\* lines 5996-6023: deterministic Gate B repair of the final answer
GateBRepair ==
    /\ pc = "gate_b_repair"
    /\ LET r == auto_complete_citations_for_path_gates(answer, evidence_blocks, cfg)
       IN  IF answer # <<>> /\ evidence_blocks # <<>> /\ cfg.enforce_paths_must_be_cited
              /\ r.answer # <<>> /\ r.answer # answer
           THEN /\ answer' = r.answer
                /\ engine_added' = engine_added \cup Range(r.added)
           ELSE UNCHANGED <<extvars, answer, engine_added>>
    /\ pc' = "validate"
    /\ UNCHANGED <<extvars, cfg, evidence_blocks, allowed_citations, allowed_built,
                   last_reply, top_k, adaptive_rerun_count, schema_retry_count,
                   advice_retry_count, retry_idx, llm_dispatch, schema_issues,
                   advice_quality_issues>>

\* line 6036: schema_issues = _compute_schema_issues_local(ans or "")
FinalValidation ==
    /\ pc = "validate"
    /\ schema_issues' = Probe(answer)
    /\ pc' = "advice"
    /\ UNCHANGED <<extvars, cfg, evidence_blocks, allowed_citations, allowed_built, answer,
                   last_reply, top_k, adaptive_rerun_count, schema_retry_count,
                   advice_retry_count, retry_idx, llm_dispatch,
                   advice_quality_issues, engine_added>>

\* q.advice_mode != "llm", or no evidence blocks: no advice call
AdviceSkipped ==
    /\ pc = "advice"
    /\ cfg.advice_mode # "llm" \/ evidence_blocks = <<>>
    /\ pc' = "done"
    /\ UNCHANGED <<extvars, cfg, evidence_blocks, allowed_citations, allowed_built, answer,
                   last_reply, top_k, adaptive_rerun_count, schema_retry_count,
                   advice_retry_count, retry_idx, llm_dispatch, schema_issues,
                   advice_quality_issues, engine_added>>

\* the advice model call; whether its text has quality issues is the model's doing
AdvicePrimary ==
    /\ pc = "advice"
    /\ cfg.advice_mode = "llm" /\ evidence_blocks # <<>>
    /\ llm_dispatch' = Append(llm_dispatch, "advice_primary")
    /\ advice_quality_issues' \in BOOLEAN
    /\ retry_idx' = 1
    /\ pc' = "advice_loop"
    /\ UNCHANGED <<extvars, cfg, evidence_blocks, allowed_citations, allowed_built, answer,
                   last_reply, top_k, adaptive_rerun_count, schema_retry_count,
                   advice_retry_count, schema_issues, engine_added>>

\* one iteration of the advice retry loop that finds issues
AdviceRetry ==
    /\ pc = "advice_loop"
    /\ retry_idx <= advice_retry_attempts(cfg)
    /\ advice_quality_issues
    /\ advice_retry_count' = advice_retry_count + 1
    /\ llm_dispatch' = Append(llm_dispatch, "advice_retry")
    /\ advice_quality_issues' \in BOOLEAN
    /\ retry_idx' = retry_idx + 1
    /\ UNCHANGED <<extvars, pc, cfg, evidence_blocks, allowed_citations, allowed_built,
                   answer, last_reply, top_k, adaptive_rerun_count,
                   schema_retry_count, schema_issues, engine_added>>

\* the advice retry loop breaks or is exhausted
AdviceLoopExit ==
    /\ pc = "advice_loop"
    /\ ~(retry_idx <= advice_retry_attempts(cfg) /\ advice_quality_issues)
    /\ pc' = "done"
    /\ UNCHANGED <<extvars, cfg, evidence_blocks, allowed_citations, allowed_built, answer,
                   last_reply, top_k, adaptive_rerun_count, schema_retry_count,
                   advice_retry_count, retry_idx, llm_dispatch, schema_issues,
                   advice_quality_issues, engine_added>>

Next ==
    \/ PrepareQuestion
    \/ DeterministicAnswer
    \/ EvidenceEmptyGate
    \/ PrimaryCall
    \/ AdaptiveRerun
    \/ NoAdaptiveRerun
    \/ SchemaRetry
    \/ SchemaRetrySatisfied
    \/ SchemaLoopExit
    \/ StrictContractRepair
    \/ GateBRepair
    \/ FinalValidation
    \/ AdviceSkipped
    \/ AdvicePrimary
    \/ AdviceRetry
    \/ AdviceLoopExit

Init == InitQuestion

Spec == Init /\ [][Next]_vars

-----------------------------------------------------------------------------
(* The citation provenance gate as a function of (answer, evidence): the   *)
(* inputs are drawn by InitGate and the gate is applied by one step.       *)

\* the tokens path:a and path:a-b with 1 <= a <= b <= MaxLine
SpanTokens(path) ==
    { Tok(<<>>, path, a, -1) : a \in 1..MaxLine }
    \cup { Tok(<<>>, path, ab[1], ab[2]) :
             ab \in {x \in (1..MaxLine) \X (1..MaxLine) : x[1] < x[2]} }

\* ranges written with their bounds reversed
ReversedTokens(path) ==
    { Tok(<<>>, path, ab[1], ab[2]) :
        ab \in {x \in (1..MaxLine) \X (1..MaxLine) : x[1] > x[2]} }

\* sequences over S of length at most 2
SeqsUpTo2(S) == {<<>>} \cup {<<x>> : x \in S} \cup {<<x, y>> : x \in S, y \in S}

\* evidence of the gate runs: none, or one block whose rows carry up to two
\* line tokens of src/lib.rs
GateEvidence ==
    { <<>> }
    \cup { << UsableBlock(ArtifactAnchor, SortedToks(S), {}) >> :
             S \in {T \in SUBSET SpanTokens("src/lib.rs") : Cardinality(T) <= 2} }

\* the tokens an answer of the gate runs may cite
GateAnswerTokens ==
    SpanTokens("src/lib.rs") \cup ReversedTokens("src/lib.rs")
    \cup { Tok(<<>>, "src/x.rs", a, -1) : a \in 1..MaxLine }
    \cup { ArtifactAnchor,
           Tok(<<"file">>, "src/lib.rs", 1, -1),
           Tok(<<>>, "NONE", -1, -1) }

\* an unknown token repeated in front of the citations of an answer
PadToken == Tok(<<>>, "src/x.rs", 1, -1)

GateAnswers ==
    { << VerdictLine("=", "TRUE_POSITIVE"), TextLine({}, <<>>) >> }
    \cup { << VerdictLine("=", "TRUE_POSITIVE"),
              CitationsLine("=", Repeat(PadToken, n) \o toks) >> :
             n \in {0, UnknownCitationsCap}, toks \in SeqsUpTo2(GateAnswerTokens) }

\* the configuration of the gate runs: provenance and path gates enforced
GateConfig == CHOOSE c \in Configs :
    /\ c.enforce_citations_from_evidence /\ c.enforce_paths_must_be_cited
    /\ c.strict_response_template /\ c.answer_mode = "llm"

InitGate ==
    /\ pc = "gate_ready"
    /\ cfg = GateConfig
    /\ evidence_blocks \in GateEvidence
    /\ allowed_citations = extract_allowed_citation_tokens(evidence_blocks)
    /\ allowed_built = TRUE
    /\ answer \in GateAnswers
    /\ last_reply = answer
    /\ top_k = 0
    /\ adaptive_rerun_count = 0
    /\ schema_retry_count = 0
    /\ advice_retry_count = 0
    /\ retry_idx = 0
    /\ llm_dispatch = <<>>
    /\ schema_issues = <<>>
    /\ advice_quality_issues = FALSE
    /\ engine_added = {}
    /\ ExtIdle

\* provenance_issues = validate_citations_from_evidence(answer_text, allowed=allowed)
ApplyProvenanceGate ==
    /\ pc = "gate_ready"
    /\ schema_issues' = validate_citations_from_evidence(answer, allowed_citations)
    /\ pc' = "gate_done"
    /\ UNCHANGED <<extvars, cfg, evidence_blocks, allowed_citations, allowed_built, answer,
                   last_reply, top_k, adaptive_rerun_count, schema_retry_count,
                   advice_retry_count, retry_idx, llm_dispatch,
                   advice_quality_issues, engine_added>>

NextGate == ApplyProvenanceGate

SpecGate == InitGate /\ [][NextGate]_vars

-----------------------------------------------------------------------------
(* Properties of the per-question pipeline (specification Spec) *)

\* the normalized tokens that the text of the evidence blocks holds
EvidenceTokens(blocks) ==
    LET raw == EvidenceCiteLike(blocks) \o EvidenceCiteHeaders(blocks)
    IN  { normalize_citation_token_for_provenance(raw[i]) : i \in DOMAIN raw }

\* the model calls that produce the answer
AnswerCallKinds == {"primary", "adaptive_rerun", "schema_retry"}

AnswerCalls(dispatch) == SelectSeq(dispatch, LAMBDA k : k \in AnswerCallKinds)

CallsOfKind(dispatch, kind) == Len(SelectSeq(dispatch, LAMBDA k : k = kind))

\* position of a pipeline location in the order of the phases
PhaseRank(p) ==
    CASE p = "gathered"       -> 0
      [] p = "chat"           -> 1
      [] p = "adaptive_check" -> 2
      [] p = "schema_loop"    -> 3
      [] p = "chat_done"      -> 4
      [] p = "gate_b_repair"  -> 5
      [] p = "validate"       -> 6
      [] p = "advice"         -> 7
      [] p = "advice_loop"    -> 8
      [] OTHER                -> 9

\* position of a model call in the order of the phases
DispatchRank(kind) ==
    CASE kind = "primary"        -> 1
      [] kind = "adaptive_rerun" -> 2
      [] kind = "schema_retry"   -> 3
      [] kind = "advice_primary" -> 4
      [] OTHER                   -> 5

\* C1 (as amended): every citation token that strict-contract repair, Gate B
\* auto-completion or the deterministic seed answer added to the answer is a
\* token of some evidence block of the question, except the fixed fallback
\* anchor <qid>_preflight.json:1, which is written only when the evidence yields
\* no citeable token.
C1_NeverInventExceptFallback ==
    \A t \in engine_added :
        \/ t \in EvidenceTokens(evidence_blocks)
        \/ /\ t = FallbackCitation
           /\ extract_allowed_citation_tokens(evidence_blocks) = {}

\* C1 (as stated): every token the engine added is a token of some evidence
\* block, also when the evidence yields no citeable token.
C1_NeverInvent == \A t \in engine_added : t \in EvidenceTokens(evidence_blocks)

\* Gate B auto-completion has added an evidence token to an answer of the model
C1_Witness ==
    /\ pc = "validate"
    /\ cfg.answer_mode = "llm" /\ ~cfg.strict_response_template
    /\ engine_added # {}
    /\ engine_added \subseteq EvidenceTokens(evidence_blocks)

\* C2 (as stated): after the schema retries, strict-contract repair leaves an
\* answer on which the Schema Gate reports no issue.
C2_RepairPassesSchemaGate ==
    (pc = "gate_b_repair" /\ cfg.answer_mode = "llm" /\ cfg.strict_response_template)
        => validate_response_schema(answer, cfg) = <<>>

\* C3: the phases are entered in the order primary answer, adaptive rerun,
\* schema retries, contract repair, advice retries, terminal and never
\* re-entered; the model calls are dispatched in that order; once contract
\* repair has been reached no model call for the answer is made.
C3_PhaseOrder ==
    [][ /\ PhaseRank(pc') >= PhaseRank(pc)
        /\ \A i, j \in DOMAIN llm_dispatch' :
              i < j => DispatchRank(llm_dispatch'[i]) <= DispatchRank(llm_dispatch'[j])
        /\ CallsOfKind(llm_dispatch', "primary") <= 1
        /\ CallsOfKind(llm_dispatch', "adaptive_rerun") <= 1
        /\ PhaseRank(pc) >= PhaseRank("chat_done")
              => /\ AnswerCalls(llm_dispatch') = AnswerCalls(llm_dispatch)
                 /\ last_reply' = last_reply ]_vars

\* a question went through every phase
C3_Witness ==
    /\ pc = "done"
    /\ \A kind \in {"primary", "adaptive_rerun", "schema_retry",
                     "advice_primary", "advice_retry"} :
          CallsOfKind(llm_dispatch, kind) >= 1
    /\ engine_added # {}

\* C4: the schema-retry calls of a question number at most
\* schema_retry_attempts; no schema-retry call is made from a state whose
\* answer probes clean, nor after the loop was left; the loop terminates: its
\* index stays within 1..schema_retry_attempts+1 and every step taken in the
\* loop either leaves it or moves the index up by one.
C4_SchemaRetryBounded ==
    /\ [](/\ schema_retry_count <= cfg.schema_retry_attempts
          /\ schema_retry_count = CallsOfKind(llm_dispatch, "schema_retry")
          /\ pc = "schema_loop"
                => /\ retry_idx = schema_retry_count + 1
                   /\ retry_idx \in 1..(cfg.schema_retry_attempts + 1))
    /\ [][ /\ (Probe(answer) = <<>> \/ pc # "schema_loop")
                => schema_retry_count' = schema_retry_count
           /\ pc = "schema_loop"
                => \/ pc' = "chat_done"
                   \/ /\ pc' = "schema_loop"
                      /\ retry_idx' = retry_idx + 1
                      /\ schema_retry_count' = schema_retry_count + 1 ]_vars

\* the loop stopped early: one retry, then a clean probe, attempts left over
C4_Witness ==
    /\ pc = "chat_done"
    /\ schema_retry_count = 1
    /\ cfg.schema_retry_attempts = MaxSchemaRetryAttempts
    /\ Probe(answer) = <<>>

\* C5: the adaptive rerun is made at most once; it is made only with adaptive
\* top-k on, the initial top_k below top_k_max and a first answer that fails a
\* gate; it runs at top_k_max and its reply replaces the first answer.
C5_AdaptiveRerunOnce ==
    /\ [](/\ adaptive_rerun_count <= 1
          /\ adaptive_rerun_count = CallsOfKind(llm_dispatch, "adaptive_rerun"))
    /\ [][ adaptive_rerun_count' # adaptive_rerun_count
             => /\ cfg.adaptive_top_k
                /\ top_k = InitialTopK(cfg) /\ top_k < cfg.top_k_max
                /\ cfg.chat_top_k_initial < cfg.top_k_max
                /\ llm_dispatch = <<"primary">>
                /\ Probe(answer) # <<>>
                /\ top_k' = cfg.top_k_max
                /\ llm_dispatch' = <<"primary", "adaptive_rerun">>
                /\ answer' = last_reply' ]_vars

\* the rerun fired and replaced a failing first answer by a different one
C5_Witness ==
    /\ pc = "schema_loop"
    /\ adaptive_rerun_count = 1
    /\ top_k = cfg.top_k_max
    /\ Probe(answer) = <<>>

\* the clean first answer and the evidence it was given: the anchor of the
\* block cited, a row path of the block mentioned in the body
CleanFirstAnswer ==
    << VerdictLine("=", "TRUE_POSITIVE"), CitationsLine("=", <<ArtifactAnchor>>),
       BlankLine, TextLine({"src/x.rs"}, <<>>) >>

RowPathEvidence == << UsableBlock(ArtifactAnchor, <<>>, {"src/x.rs"}) >>

\* the first answer is the current answer and has the clean shape
C6_Case ==
    /\ llm_dispatch = <<"primary">>
    /\ pc \in {"adaptive_check", "schema_loop"}
    /\ answer = CleanFirstAnswer
    /\ evidence_blocks = RowPathEvidence

\* validate_path_gates with only one of the two gates enforced
GateAIssues(ans, blocks) ==
    validate_path_gates(ans, blocks, [cfg EXCEPT !.enforce_no_new_paths = TRUE,
                                                 !.enforce_paths_must_be_cited = FALSE])

GateBIssues(ans, blocks) ==
    validate_path_gates(ans, blocks, [cfg EXCEPT !.enforce_no_new_paths = FALSE,
                                                 !.enforce_paths_must_be_cited = TRUE])

\* C6 (as amended): on the clean first answer the Schema Gate, the Citation
\* Provenance Gate and Gate A report no issue, and Gate B reports the row path
\* of the body as uncited; the probe of the answer is clean, and neither the
\* adaptive rerun nor a schema retry is triggered, exactly when
\* enforce_paths_must_be_cited is off.
C6_CleanPassUnlessGateB ==
    C6_Case =>
        /\ validate_response_schema(answer, cfg) = <<>>
        /\ validate_citations_from_evidence(
               answer, extract_allowed_citation_tokens(evidence_blocks)) = <<>>
        /\ GateAIssues(answer, evidence_blocks) = <<>>
        /\ GateBIssues(answer, evidence_blocks)
              = << Issue("gate_b", "paths_not_cited", <<"src/x.rs">>) >>
        /\ (Probe(answer) = <<>>) <=> ~cfg.enforce_paths_must_be_cited
        /\ pc = "adaptive_check" =>
              (AdaptiveRerunFires <=>
                  /\ cfg.enforce_paths_must_be_cited
                  /\ cfg.adaptive_top_k /\ cfg.chat_top_k_initial < cfg.top_k_max)
        /\ pc = "schema_loop" =>
              ((SchemaLoopActive /\ Probe(answer) # <<>>) <=>
                  (cfg.enforce_paths_must_be_cited /\ cfg.schema_retry_attempts > 0))

\* C6 (as stated): on the clean first answer the configured gates report no
\* issue and neither the adaptive rerun nor a schema retry is triggered.
C6_CleanPass ==
    C6_Case =>
        /\ Probe(answer) = <<>>
        /\ GateBIssues(answer, evidence_blocks) = <<>>
        /\ ~(pc = "adaptive_check" /\ AdaptiveRerunFires)
        /\ ~(pc = "schema_loop" /\ SchemaLoopActive /\ Probe(answer) # <<>>)

\* the clean first answer under provenance and Gate A, with retries available
C6_Witness ==
    /\ C6_Case
    /\ pc = "schema_loop"
    /\ cfg.enforce_citations_from_evidence /\ cfg.enforce_no_new_paths
    /\ ~cfg.enforce_paths_must_be_cited
    /\ cfg.adaptive_top_k /\ cfg.chat_top_k_initial < cfg.top_k_max
    /\ cfg.schema_retry_attempts > 0
    /\ Probe(answer) = <<>>

\* C7: with provenance enforced the allowed set is built from the evidence
\* before the first model call of the question, and no later step of the
\* question changes it: every probe and the final validation see the same set.
C7_AllowedSetBuiltOnce ==
    /\ []((llm_dispatch # <<>> /\ cfg.enforce_citations_from_evidence)
             => /\ allowed_built
                /\ allowed_citations = extract_allowed_citation_tokens(evidence_blocks))
    /\ []((~cfg.enforce_citations_from_evidence) => ~allowed_built)
    /\ [][ /\ allowed_built => (allowed_built' /\ allowed_citations' = allowed_citations)
           /\ evidence_blocks' = evidence_blocks
           /\ allowed_built' # allowed_built => llm_dispatch = <<>> ]_vars

\* a question with a non-empty allowed set went through a rerun and a retry
C7_Witness ==
    /\ pc = "done"
    /\ allowed_built /\ allowed_citations # {}
    /\ adaptive_rerun_count = 1 /\ schema_retry_count >= 1

-----------------------------------------------------------------------------
(* Properties of the citation provenance gate (specification SpecGate) *)

\* the tokens the gate reads from the answer
CitedTokens == extract_answer_citation_tokens(answer)

\* token t and allowed token al name the same path and their spans overlap
Overlaps(t, al) ==
    /\ PathlineMatch(t) /\ PathlineMatch(al)
    /\ t.path = al.path
    /\ SpanLo(t) <= SpanHi(al) /\ SpanLo(al) <= SpanHi(t)

\* the tokens reported by the unknown-citation issue, if there is one
ReportedUnknown ==
    IF schema_issues # <<>> /\ schema_issues[1].kind = "unknown_citation_tokens"
    THEN Range(schema_issues[1].detail) ELSE {}

\* C8: a cited token p:lo-hi (or p:n) whose span overlaps an allowed token of
\* the same path is never reported as unknown, and an answer all of whose
\* cited tokens overlap allowed tokens passes the gate.
C8_OverlapTolerance ==
    pc = "gate_done" =>
        /\ \A t \in ReportedUnknown : ~\E al \in allowed_citations : Overlaps(t, al)
        /\ (/\ allowed_citations # {}
            /\ \A i \in DOMAIN CitedTokens :
                  \E al \in allowed_citations : Overlaps(CitedTokens[i], al))
              => schema_issues = <<>>

\* allowed src/lib.rs:1-MaxLine, cited the single line src/lib.rs:2, which is
\* not itself an allowed token: the gate passed
C8_Witness ==
    /\ pc = "gate_done"
    /\ Tok(<<>>, "src/lib.rs", 1, MaxLine) \in allowed_citations
    /\ CitedTokens = << Tok(<<>>, "src/lib.rs", 2, -1) >>
    /\ Tok(<<>>, "src/lib.rs", 2, -1) \notin allowed_citations
    /\ schema_issues = <<>>

\* cited token number i is a well-formed q:n whose path no allowed token has
UnknownPathAt(i) ==
    /\ i \in DOMAIN CitedTokens
    /\ PathlineMatch(CitedTokens[i])
    /\ \A al \in allowed_citations : al.path # CitedTokens[i].path

\* how many of the first i cited tokens the gate does not know
UnknownUpTo(i) ==
    Len(unknown_citation_tokens(SubSeq(CitedTokens, 1, i), allowed_citations))

\* C9 (as amended): with a non-empty allowed set, an answer whose CITATIONS
\* line cites q:n for a path q that no allowed token has fails the gate with
\* one unknown-citation issue; the issue lists the first UnknownCitationsCap
\* unknown tokens of the line, so it names q:n when q:n is among them.
C9_UnknownPathRejectedCapped ==
    (pc = "gate_done" /\ allowed_citations # {}) =>
        \A i \in DOMAIN CitedTokens :
            UnknownPathAt(i) =>
                /\ Len(schema_issues) = 1
                /\ schema_issues[1].kind = "unknown_citation_tokens"
                /\ Len(schema_issues[1].detail) <= UnknownCitationsCap
                /\ UnknownUpTo(i) <= UnknownCitationsCap
                      => CitedTokens[i] \in ReportedUnknown

\* C9 (as stated): the unknown-citation issue names every cited q:n whose path
\* the allowed set does not have.
C9_UnknownPathNamed ==
    (pc = "gate_done" /\ allowed_citations # {}) =>
        \A i \in DOMAIN CitedTokens :
            UnknownPathAt(i) => CitedTokens[i] \in ReportedUnknown

\* the allowed set has tokens of one path only, the answer cites a line of
\* another path after a token of the allowed path, and the issue names it
C9_Witness ==
    /\ pc = "gate_done"
    /\ allowed_citations # {}
    /\ \A al \in allowed_citations : al.path = "Q1_unsafe.json"
    /\ CitedTokens = << ArtifactAnchor, Tok(<<>>, "src/x.rs", MaxLine, -1) >>
    /\ ReportedUnknown = { Tok(<<>>, "src/x.rs", MaxLine, -1) }

\* C10: with an empty allowed set the gate returns the one issue "evidence
\* contained no citeable tokens" for every answer, citing or not; that issue
\* is returned in no other case.
C10_FailClosedOnEmptyAllowed ==
    pc = "gate_done" =>
        /\ allowed_citations = {}
              => schema_issues = << Issue("provenance", "no_citeable_tokens", <<>>) >>
        /\ allowed_citations # {}
              => \A i \in DOMAIN schema_issues : schema_issues[i].kind # "no_citeable_tokens"

\* empty allowed set and an answer that cites nothing: the gate failed
C10_Witness ==
    /\ pc = "gate_done"
    /\ allowed_citations = {}
    /\ CitedTokens = <<>>
    /\ schema_issues # <<>>

-----------------------------------------------------------------------------
(* Gate B citation auto-completion as a function of (answer, evidence): the *)
(* inputs are drawn by InitRepair, the repair is applied and then applied   *)
(* once more to its own result.                                             *)

\* the CITATIONS lines an answer of the repair runs may hold
RepairCitationsLines ==
    { CitationsLine(sep, toks) :
        sep \in {"=", ":"},
        toks \in { <<>>, <<ArtifactAnchor>>, << Tok(<<>>, "src/lib.rs", 2, -1) >>,
                   << Tok(<<"file">>, "src/x.rs", 1, -1) >> } }

RepairVerdictLines == { VerdictLine(sep, "TRUE_POSITIVE") : sep \in {"=", ":"} }

\* the header lines of an answer, in the order the model wrote them
RepairHeaders ==
    { <<>> }
    \cup { <<v>> : v \in RepairVerdictLines }
    \cup { <<c>> : c \in RepairCitationsLines }
    \cup { <<v, c>> : v \in RepairVerdictLines, c \in RepairCitationsLines }
    \cup { <<c, v>> : v \in RepairVerdictLines, c \in RepairCitationsLines }
    \cup { << CitationsLine(":", <<ArtifactAnchor>>), CitationsLine("=", <<ArtifactAnchor>>) >>,
           << VerdictLine("=", "TRUE_POSITIVE"), CitHeaderLine, BulletLine(ArtifactAnchor) >> }

RepairAnswers ==
    { h \o sepr \o << TextLine(P, <<>>) >> :
        h \in RepairHeaders, sepr \in { <<>>, <<BlankLine>> },
        P \in SUBSET {"src/lib.rs", "src/x.rs"} }

\* evidence of the repair runs: none, or one block whose rows carry up to two
\* tokens of the paths the answers mention
RepairEvidence ==
    { <<>> }
    \cup { << UsableBlock(ArtifactAnchor, toks, {}) >> :
             toks \in SeqsUpTo2({ Tok(<<>>, "src/lib.rs", 1, -1),
                                  Tok(<<>>, "src/lib.rs", 1, MaxLine),
                                  Tok(<<>>, "src/lib.rs", MaxLine, -1),
                                  Tok(<<"file">>, "src/x.rs", 1, -1) }) }

InitRepair ==
    /\ pc = "repair_ready"
    /\ cfg = GateConfig
    /\ evidence_blocks \in RepairEvidence
    /\ allowed_citations = extract_allowed_citation_tokens(evidence_blocks)
    /\ allowed_built = TRUE
    /\ answer \in RepairAnswers
    /\ last_reply = answer
    /\ top_k = 0
    /\ adaptive_rerun_count = 0
    /\ schema_retry_count = 0
    /\ advice_retry_count = 0
    /\ retry_idx = 0
    /\ llm_dispatch = <<>>
    /\ schema_issues = <<>>
    /\ advice_quality_issues = FALSE
    /\ engine_added = {}
    /\ ExtIdle

\* the outcome of one application to the current answer: _auto_complete_
\* citations_for_path_gates, followed by validate_path_gates on its result
GateBRepairOutcome ==
    LET r == auto_complete_citations_for_path_gates(answer, evidence_blocks, cfg)
    IN  /\ answer' = r.answer
        /\ engine_added' = engine_added \cup Range(r.added)
        /\ schema_issues' = validate_path_gates(r.answer, evidence_blocks, cfg)

ApplyGateBRepair ==
    /\ pc = "repair_ready"
    /\ GateBRepairOutcome
    /\ pc' = "repaired_once"
    /\ UNCHANGED <<extvars, cfg, evidence_blocks, allowed_citations, allowed_built,
                   last_reply, top_k, adaptive_rerun_count, schema_retry_count,
                   advice_retry_count, retry_idx, llm_dispatch,
                   advice_quality_issues>>

ReapplyGateBRepair ==
    /\ pc = "repaired_once"
    /\ GateBRepairOutcome
    /\ pc' = "repaired_twice"
    /\ UNCHANGED <<extvars, cfg, evidence_blocks, allowed_citations, allowed_built,
                   last_reply, top_k, adaptive_rerun_count, schema_retry_count,
                   advice_retry_count, retry_idx, llm_dispatch,
                   advice_quality_issues>>

NextRepair == ApplyGateBRepair \/ ReapplyGateBRepair

SpecRepair == InitRepair /\ [][NextRepair]_vars

-----------------------------------------------------------------------------
(* Properties of Gate B auto-completion (specification SpecRepair) *)

\* the paths the body of answer `ans` mentions and its CITATIONS do not cover
UncitedPaths(ans) ==
    MentionedPaths(strip_schema_header_lines(ans))
        \ CitedPaths(extract_answer_citation_tokens(ans))

\* the paths of the Gate B issue among `issues`, if there is one
GateBReported(issues) ==
    UNION { Range(issues[i].detail) :
              i \in {j \in DOMAIN issues : issues[j].gate = "gate_b"} }

\* C11 (as stated): for every path that the body of the answer mentions and
\* no CITATIONS token covers, if the evidence holds a token of that path, the
\* repaired answer cites the first such token and has no Gate B issue for the
\* path, whatever the form of the CITATIONS line of the answer.
C11_GateBRepairCovers ==
    pc = "repaired_once" =>
        \A p \in UncitedPaths(last_reply) :
            EvidenceTokensForPath(evidence_blocks, p) # <<>> =>
                /\ EvidenceTokensForPath(evidence_blocks, p)[1]
                      \in Range(extract_answer_citation_tokens(answer))
                /\ p \notin GateBReported(schema_issues)

\* C12 (as stated): applied to its own result, the repair returns that result
\* unchanged and adds no token.
C12_GateBRepairIdempotent ==
    pc = "repaired_once" =>
        LET r == auto_complete_citations_for_path_gates(answer, evidence_blocks, cfg)
        IN  r.answer = answer /\ r.added = <<>>

-----------------------------------------------------------------------------
(* The schema gate and the path gates as functions of (answer, evidence):  *)
(* the inputs are drawn by InitShape and one of the gates is applied.      *)

\* the lines an answer of these runs is made of
ShapeLines ==
    { VerdictLine("=", "TRUE_POSITIVE"), VerdictLine(":", "MAYBE"),
      CitationsLine("=", <<ArtifactAnchor>>),
      CitationsLine("=", << Tok(<<"file">>, "src/x.rs", 1, MaxLine) >>),
      CitationsLine("=", << Tok(<<>>, "src/x.rs", -1, -1) >>),
      CitationsLine("=", << ArtifactAnchor, Tok(<<>>, "NONE", -1, -1) >>),
      CitationsLine("=", <<>>),
      CitationsLine(":", <<>>),
      CitHeaderLine, HeadingLine, BlankLine,
      TextLine({}, <<>>), TextLine({"src/x.rs"}, <<>>) }

\* answers of at most three lines
ShapeAnswers ==
    { <<>> } \cup { <<x>> : x \in ShapeLines }
    \cup { <<x, y>> : x \in ShapeLines, y \in ShapeLines }
    \cup { <<x, y, z>> : x \in ShapeLines, y \in ShapeLines, z \in ShapeLines }

\* no evidence, a block of the artifact alone, a block with a row of src/x.rs
ShapeEvidence ==
    { <<>>,
      << UsableBlock(ArtifactAnchor, <<>>, {}) >>,
      << UsableBlock(ArtifactAnchor, << Tok(<<>>, "src/x.rs", 1, MaxLine) >>, {}) >> }

InitShape ==
    /\ pc = "gate_ready"
    /\ cfg = GateConfig
    /\ evidence_blocks \in ShapeEvidence
    /\ allowed_citations = extract_allowed_citation_tokens(evidence_blocks)
    /\ allowed_built = TRUE
    /\ answer \in ShapeAnswers
    /\ last_reply = answer
    /\ top_k = 0
    /\ adaptive_rerun_count = 0
    /\ schema_retry_count = 0
    /\ advice_retry_count = 0
    /\ retry_idx = 0
    /\ llm_dispatch = <<>>
    /\ schema_issues = <<>>
    /\ advice_quality_issues = FALSE
    /\ engine_added = {}
    /\ ExtIdle

\* issues.extend(validate_response_schema(answer_text, validation))
ApplySchemaGate ==
    /\ pc = "gate_ready"
    /\ schema_issues' = validate_response_schema(answer, cfg)
    /\ pc' = "schema_done"
    /\ UNCHANGED <<extvars, cfg, evidence_blocks, allowed_citations, allowed_built, answer,
                   last_reply, top_k, adaptive_rerun_count, schema_retry_count,
                   advice_retry_count, retry_idx, llm_dispatch,
                   advice_quality_issues, engine_added>>

\* issues.extend(validate_path_gates(answer_text, evidence_blocks, validation))
ApplyPathGates ==
    /\ pc = "gate_ready"
    /\ schema_issues' = validate_path_gates(answer, evidence_blocks, cfg)
    /\ pc' = "paths_done"
    /\ UNCHANGED <<extvars, cfg, evidence_blocks, allowed_citations, allowed_built, answer,
                   last_reply, top_k, adaptive_rerun_count, schema_retry_count,
                   advice_retry_count, retry_idx, llm_dispatch,
                   advice_quality_issues, engine_added>>

NextShape == ApplySchemaGate \/ ApplyPathGates

SpecShape == InitShape /\ [][NextShape]_vars

-----------------------------------------------------------------------------
(* Properties of the path gates and the schema gate (specification SpecShape) *)

\* the file paths written anywhere in the answer, body or CITATIONS lines
AnswerPaths(ans) == UNION { LineFilePaths(ans[i]) : i \in DOMAIN ans }

GateAKinds(issues) ==
    { issues[i].kind : i \in {j \in DOMAIN issues : issues[j].gate = "gate_a"} }

\* C13 (as stated): an answer passes Gate A only if every path it mentions, in
\* the body or in CITATIONS, is among the paths derived from the evidence; when
\* the evidence yields no path and the answer mentions one, Gate A reports
\* "cannot validate".
C13_GateANoNewPaths ==
    pc = "paths_done" =>
        LET allowed_paths == extract_allowed_paths_from_evidence(evidence_blocks)
        IN  /\ GateAKinds(schema_issues) = {} => AnswerPaths(answer) \subseteq allowed_paths
            /\ (allowed_paths = {} /\ AnswerPaths(answer) # {})
                  => "cannot_validate" \in GateAKinds(schema_issues)

\* the conditions on the shape of an answer
FirstIsVerdict(ans) ==
    LET ne == NonemptyLines(ans) IN Len(ne) >= 1 /\ ne[1].k = "verdict"

SecondIsCitations(ans) ==
    LET ne == NonemptyLines(ans)
    IN  Len(ne) >= 2 /\ ne[2].k = "citations" /\ ne[2].toks # <<>>

HeaderLinesOnce(ans) ==
    /\ Cardinality(LinesOfKind(ans, {"verdict"})) = 1
    /\ Cardinality(LinesOfKind(ans, {"citations"})) = 1

VerdictAllowed(ans) ==
    \A i \in LinesOfKind(ans, {"verdict"}) : ans[i].val \in cfg.required_verdicts

NoStandaloneHeading(ans) ==
    \A i \in DOMAIN ans :
        /\ ans[i].k # "heading"
        /\ ~(ans[i].k = "citations" /\ ans[i].sep = ":" /\ ans[i].toks = <<>>)

\* every token of the CITATIONS lines has the path:line(-line) form once one
\* leading file:/path:/artifact:/section: and one cite= are taken off
TokensWellFormed(ans) ==
    \A i \in LinesOfKind(ans, {"citations"}) :
        \A j \in DOMAIN ans[i].toks :
            LET t == ans[i].toks[j]
                u == IF t.pre # <<>> /\ Head(t.pre) \in {"file", "path", "artifact", "section"}
                     THEN [t EXCEPT !.pre = Tail(@)] ELSE t
                w == IF u.pre # <<>> /\ Head(u.pre) = "cite"
                     THEN [u EXCEPT !.pre = Tail(@)] ELSE u
            IN  /\ w.pre = <<>> /\ w.a # -1 /\ w.path \notin {"", "<text>"}
                /\ \A d \in Range(t.deco) : d = "tick"
                /\ t.sfx = 0 /\ ~t.anchor

ShapeConditions(ans) ==
    /\ FirstIsVerdict(ans) /\ SecondIsCitations(ans) /\ HeaderLinesOnce(ans)
    /\ VerdictAllowed(ans) /\ NoStandaloneHeading(ans)

\* C14 (as amended): the Schema Gate reports no issue exactly for the answers
\* whose first non-empty line is a VERDICT line, whose second is a non-empty
\* CITATIONS line, with VERDICT and CITATIONS once each, the verdict in the
\* allow-list, no standalone Analysis:/Citations: heading, and every CITATIONS
\* token of the path:line(-line) form.
C14_SchemaGateAcceptance ==
    pc = "schema_done" =>
        (schema_issues = <<>> <=> (ShapeConditions(answer) /\ TokensWellFormed(answer)))

\* C14 (as stated): the Schema Gate reports no issue exactly for the answers
\* that meet the conditions on VERDICT, CITATIONS and headings.
C14_SchemaGateShapeOnly ==
    pc = "schema_done" => (schema_issues = <<>> <=> ShapeConditions(answer))

\* an accepted answer with a prefixed range token, and a body line after it
C14_Witness ==
    /\ pc = "schema_done"
    /\ schema_issues = <<>>
    /\ Len(answer) = 3
    /\ answer[2] = CitationsLine("=", << Tok(<<"file">>, "src/x.rs", 1, MaxLine) >>)
    /\ answer[3] = TextLine({"src/x.rs"}, <<>>)

-----------------------------------------------------------------------------
(* Token normalization runs: one raw token, written by the model as the      *)
(* CITATIONS line of an answer and present in a rendered evidence row, is     *)
(* normalized, normalized again, judged by the schema gate, and admitted to   *)
(* the allowed set.                                                           *)

NormDecorations ==
    { <<>>, <<"bullet">>, <<"tick">>, <<"bullet", "tick">>, <<"tick", "bullet">>,
      <<"bullet", "bullet">> }

\* no prefix, one prefix, and stacks of two in both orders
NormPrefixes ==
    { <<>> }
    \cup { <<x>> : x \in {"file", "path", "cite", "section", "artifact"} }
    \cup { <<"file", "path">>, <<"path", "file">>, <<"file", "file">>,
           <<"file", "cite">>, <<"cite", "file">>, <<"cite", "section">>,
           <<"artifact", "section">>, <<"section", "artifact">> }

NormPaths == {"src/x.rs", "R_Q1_unsafe.json"}

\* <<a, b, anchor>>: no line, one line, a range in either order, an anchor
NormLineForms ==
    { <<-1, -1, FALSE>> }
    \cup { <<a, -1, FALSE>> : a \in 1 .. MaxLine }
    \cup { <<a, b, anc>> : a \in 1 .. MaxLine, b \in 1 .. MaxLine, anc \in BOOLEAN }

RawTokens ==
    { RawTok(d, pre, p, f[1], f[2], f[3], n) :
        d \in NormDecorations, pre \in NormPrefixes, p \in NormPaths,
        f \in NormLineForms, n \in 0 .. 2 }

\* the token the model wrote on the CITATIONS line
RawOf(ans) == ans[2].toks[1]

InitNorm ==
    /\ pc = "token_raw"
    /\ cfg = GateConfig
    /\ \E raw \in RawTokens :
          /\ answer = << VerdictLine("=", "TRUE_POSITIVE"), CitationsLine("=", <<raw>>) >>
          /\ evidence_blocks = << UsableBlock(ArtifactAnchor, <<raw>>, {}) >>
    /\ last_reply = answer
    /\ allowed_citations = {}
    /\ allowed_built = FALSE
    /\ top_k = 0
    /\ adaptive_rerun_count = 0
    /\ schema_retry_count = 0
    /\ advice_retry_count = 0
    /\ retry_idx = 0
    /\ llm_dispatch = <<>>
    /\ schema_issues = <<>>
    /\ advice_quality_issues = FALSE
    /\ engine_added = {}
    /\ ExtIdle

\* the CITATIONS line rewritten to ", ".join(_extract_answer_citation_tokens(answer))
NormalizedAnswer(ans) ==
    [ans EXCEPT ![2] = CitationsLine("=", extract_answer_citation_tokens(ans))]

NormalizeToken ==
    /\ pc = "token_raw"
    /\ answer' = NormalizedAnswer(answer)
    /\ pc' = "normalized_once"
    /\ UNCHANGED <<extvars, cfg, evidence_blocks, allowed_citations, allowed_built,
                   last_reply, top_k, adaptive_rerun_count, schema_retry_count,
                   advice_retry_count, retry_idx, llm_dispatch, schema_issues,
                   advice_quality_issues, engine_added>>

RenormalizeToken ==
    /\ pc = "normalized_once"
    /\ answer' = NormalizedAnswer(answer)
    /\ pc' = "normalized_twice"
    /\ UNCHANGED <<extvars, cfg, evidence_blocks, allowed_citations, allowed_built,
                   last_reply, top_k, adaptive_rerun_count, schema_retry_count,
                   advice_retry_count, retry_idx, llm_dispatch, schema_issues,
                   advice_quality_issues, engine_added>>

JudgeToken ==
    /\ pc = "token_raw"
    /\ schema_issues' = validate_response_schema(answer, cfg)
    /\ pc' = "token_judged"
    /\ UNCHANGED <<extvars, cfg, evidence_blocks, allowed_citations, allowed_built, answer,
                   last_reply, top_k, adaptive_rerun_count, schema_retry_count,
                   advice_retry_count, retry_idx, llm_dispatch,
                   advice_quality_issues, engine_added>>

AdmitToken ==
    /\ pc = "token_raw"
    /\ allowed_citations' = extract_allowed_citation_tokens(evidence_blocks)
    /\ allowed_built' = TRUE
    /\ pc' = "token_admitted"
    /\ UNCHANGED <<extvars, cfg, evidence_blocks, answer, last_reply, top_k,
                   adaptive_rerun_count, schema_retry_count, advice_retry_count,
                   retry_idx, llm_dispatch, schema_issues, advice_quality_issues,
                   engine_added>>

NextNorm == NormalizeToken \/ RenormalizeToken \/ JudgeToken \/ AdmitToken

SpecNorm == InitNorm /\ [][NextNorm]_vars

-----------------------------------------------------------------------------
(* Properties of the token normalization runs *)

\* the schema gate reported a malformed CITATIONS token
SchemaRejectsToken(issues) ==
    \E i \in DOMAIN issues : issues[i].kind = "invalid_tokens"

\* C15: the schema gate accepts every raw CITATIONS token that the normalizer
\* turns into a path:line(-line) token, so the schema gate and the provenance
\* gate agree on which tokens are well formed.
C15_SchemaGateAgreesWithNormalizer ==
    pc = "token_judged" =>
        (PathlineMatch(normalize_citation_token_for_provenance(RawOf(answer)))
            => ~SchemaRejectsToken(schema_issues))

\* C16: normalizing a token that is already normalized changes nothing: the
\* second normalization of a raw token returns the result of the first.
C16_NormalizerIdempotent ==
    pc = "normalized_twice" =>
        RawOf(answer)
            = normalize_citation_token_for_provenance(RawOf(last_reply))

\* a token that carries a range whose first bound is above its second
Reversed(t) == t.b # -1 /\ t.a > t.b

\* C17 (as stated): no token the normalizer produces, and no token of the
\* allowed set, carries a range with lo > hi.
C17_NoReversedRange ==
    /\ pc = "normalized_once" => ~Reversed(RawOf(answer))
    /\ pc = "token_admitted" => \A t \in allowed_citations : ~Reversed(t)

\* C17: a range the normalizer derives from the anchor form has lo = min(A, B)
\* and hi = max(A, B); a plain range keeps the two bounds as written, also
\* when it is reversed, and enters the allowed set in that form.
C17_AnchorOrderedPlainKept ==
    /\ pc = "normalized_once" =>
          LET raw == RawOf(last_reply)
              out == RawOf(answer)
          IN  /\ (raw.anchor /\ ~out.anchor) =>
                    /\ out.a = Min2(raw.a, raw.b)
                    /\ out.b = Max2(raw.a, raw.b)
              /\ (~raw.anchor /\ raw.b # -1) => (out.a = raw.a /\ out.b = raw.b)
    /\ pc = "token_admitted" =>
          LET raw == evidence_blocks[1].toks[1]
          IN  (~raw.anchor /\ raw.b # -1) =>
                  Tok(<<>>, raw.path, raw.a, raw.b) \in allowed_citations

\* an anchor written with its bounds reversed has been rewritten
C17_Witness ==
    /\ pc = "normalized_once"
    /\ RawOf(last_reply).anchor /\ RawOf(last_reply).a > RawOf(last_reply).b
    /\ PathlineMatch(RawOf(answer))

-----------------------------------------------------------------------------
(* Dynamic evidence key discovery *)

\* the key names of the model
KeyNames == {"file_path", "source_file", "line_start", "snippet", "hit_count",
             "results", "entity_id"}

\* _is_path_key_candidate: "file_path" is listed, "source_file" ends in _file
is_path_key_candidate(k) == k \in {"file_path", "source_file"}

\* _is_line_key_candidate
is_line_key_candidate(k) == k \in {"line_start"}

\* _is_snippet_key_candidate: "snippet" is listed, "source_file" holds the hint
\* term "source" and is not metric-ish
is_snippet_key_candidate(k) == k \in {"snippet", "source_file"}

\* "count" in lc or lc in ("total", "matches", ...)
is_count_key(k) == k \in {"hit_count"}

\* _looks_like_key_name(lk, DYNAMIC_ROW_CONTAINER_HINT_TERMS)
looks_like_row_container(k) == k \in {"results"}

\* _engine_supports_schema_contract
engine_supports_schema_contract(engine_name) == engine_name \in {"rsqt", "raqt"}

\* REQUIRED_SEMANTIC_KEY_CATEGORIES
RequiredSemanticKeyCategories == {"path_keys", "line_keys", "snippet_keys"}

\* variant of _runtime_add_key: the new key is put in front
runtime_add_key_InFront(dyn, category, k) ==
    IF category \notin DOMAIN dyn \/ k = "" \/ k \in Range(dyn[category])
    THEN dyn
    ELSE [dyn EXCEPT ![category] = <<k>> \o @]

runtime_add_key(dyn, category, k) ==
    IF category \notin DOMAIN dyn THEN dyn
    ELSE IF k = "" THEN dyn
    ELSE IF k \in Range(dyn[category]) THEN dyn
    ELSE IF Len(dyn[category]) >= DynamicMaxKeysPerCategory THEN dyn
    ELSE [dyn EXCEPT ![category] = Append(@, k)]

\* for k in keys: _runtime_add_key(category, k)
RECURSIVE AddKeys(_, _, _)
AddKeys(dyn, category, keys) ==
    IF keys = <<>> THEN dyn
    ELSE AddKeys(runtime_add_key(dyn, category, Head(keys)), category, Tail(keys))

\* _ordered_union(base, extra)
ordered_union(base, extra) == Dedup(base \o extra)

\* _effective_<category>(): the static policy keys, then the learned keys
effective_keys(static_keys, dyn, category) ==
    ordered_union(static_keys[category], dyn[category])

effective_by_category(static_keys, dyn) ==
    [c \in KeyCategories |-> effective_keys(static_keys, dyn, c)]

\* the body of the loop of _seed_runtime_keys_from_parquet_columns for one column
SeedColumn(dyn, c) ==
    LET d1 == IF is_path_key_candidate(c) THEN runtime_add_key(dyn, "path_keys", c) ELSE dyn
        d2 == IF is_line_key_candidate(c) THEN runtime_add_key(d1, "line_keys", c) ELSE d1
        d3 == IF is_snippet_key_candidate(c) THEN runtime_add_key(d2, "snippet_keys", c) ELSE d2
    IN  IF is_count_key(c)
        THEN runtime_add_key(runtime_add_key(d3, "row_count_keys", c), "has_hits_count_keys", c)
        ELSE d3

RECURSIVE seed_runtime_keys_from_parquet_columns(_, _)
seed_runtime_keys_from_parquet_columns(dyn, columns) ==
    IF columns = <<>> THEN dyn
    ELSE seed_runtime_keys_from_parquet_columns(SeedColumn(dyn, Head(columns)), Tail(columns))

\* semantic_keys is _extract_semantic_keys_from_contract(contract)
seed_runtime_keys_from_contract(dyn, semantic_keys) ==
    LET d1 == AddKeys(dyn, "iter_rows_keys", semantic_keys["iter_rows_keys"])
        d2 == AddKeys(d1, "has_hits_count_keys", semantic_keys["has_hits_count_keys"])
        d3 == AddKeys(d2, "row_count_keys", semantic_keys["row_count_keys"])
        d4 == AddKeys(d3, "path_keys", semantic_keys["path_keys"])
        d5 == AddKeys(d4, "line_keys", semantic_keys["line_keys"])
    IN  AddKeys(d5, "snippet_keys", semantic_keys["snippet_keys"])

\* the columns of the doxslock registry modules (spec.py, columns.py)
RegistryColumns == <<"file_path", "line_start", "source_file">>

\* variant: the columns of the registry modules count as a loaded contract
discover_engine_registry_columns_FallbackCounts(dyn, run) ==
    IF ~engine_supports_schema_contract(run.engine)
    THEN [cols |-> <<>>, dyn |-> dyn, loaded |-> FALSE]
    ELSE IF run.contract.available /\ run.contract.columns # <<>>
    THEN [cols |-> run.contract.columns,
          dyn |-> seed_runtime_keys_from_contract(dyn, run.contract.semantic_keys),
          loaded |-> TRUE]
    ELSE [cols |-> RegistryColumns, dyn |-> dyn, loaded |-> TRUE]

\* run: the policy and the inputs of the run; returns the columns, the key
\* state and whether the contract counts as loaded
discover_engine_registry_columns(dyn, run) ==
    IF ~engine_supports_schema_contract(run.engine)
    THEN [cols |-> <<>>, dyn |-> dyn, loaded |-> FALSE]
    ELSE IF run.contract.available /\ run.contract.columns # <<>>
    THEN [cols |-> run.contract.columns,
          dyn |-> seed_runtime_keys_from_contract(dyn, run.contract.semantic_keys),
          loaded |-> TRUE]
    ELSE IF run.require_engine_schema_contract /\ ~run.allow_engine_registry_fallback
    THEN [cols |-> <<>>, dyn |-> dyn, loaded |-> FALSE]
    ELSE [cols |-> RegistryColumns, dyn |-> dyn, loaded |-> FALSE]

\* _initialize_runtime_evidence_keys: the key state, the contract flag, the
\* effective keys of the snapshot and the fatal_schema_contract_error entry
initialize_runtime_evidence_keys(run) ==
    LET reset == empty_runtime_key_state
        eng == IF run.dynamic_key_discovery_enabled
               THEN discover_engine_registry_columns(reset, run)
               ELSE [cols |-> <<>>, dyn |-> reset, loaded |-> FALSE]
        d1 == seed_runtime_keys_from_parquet_columns(eng.dyn, eng.cols)
        d2 == IF run.dynamic_key_discovery_enabled
              THEN seed_runtime_keys_from_parquet_columns(d1, run.parquet_columns)
              ELSE d1
        effective == effective_by_category(run.static_keys, d2)
        missing_required == {c \in RequiredSemanticKeyCategories : effective[c] = <<>>}
        fatal == \/ /\ engine_supports_schema_contract(run.engine)
                    /\ run.require_engine_schema_contract
                    /\ ~eng.loaded
                 \/ run.fail_on_missing_semantic_categories /\ missing_required # {}
    IN  [dyn |-> d2, loaded |-> eng.loaded, effective |-> effective, fatal |-> fatal]

(* Payloads and rows: a row is a sequence of fields <<key, kind>> in the order *)
(* of row.items(); kind "repo_path" is a string that looks like a repo path,   *)
(* "text" another non-empty string, "number" an int or float.                  *)

\* the body of the row loop of _learn_runtime_keys_from_payload for one field
LearnField(dyn, f) ==
    LET k == f[1]
        kind == f[2]
    IN  IF kind \in {"repo_path", "text"}
        THEN LET d1 == IF is_path_key_candidate(k) \/ kind = "repo_path"
                       THEN runtime_add_key(dyn, "path_keys", k) ELSE dyn
             IN  IF is_snippet_key_candidate(k)
                 THEN runtime_add_key(d1, "snippet_keys", k) ELSE d1
        ELSE LET d1 == IF is_line_key_candidate(k)
                       THEN runtime_add_key(dyn, "line_keys", k) ELSE dyn
             IN  IF is_count_key(k)
                 THEN runtime_add_key(runtime_add_key(d1, "has_hits_count_keys", k),
                                      "row_count_keys", k)
                 ELSE d1

RECURSIVE LearnFields(_, _)
LearnFields(dyn, fields) ==
    IF fields = <<>> THEN dyn ELSE LearnFields(LearnField(dyn, Head(fields)), Tail(fields))

\* payload: container is "" for a JSON list of rows, else the key of the dict
\* entry that holds the rows; count_key is a numeric top-level entry ("" if none)
learn_runtime_keys_from_payload(dyn, payload, run) ==
    IF ~run.dynamic_key_discovery_enabled THEN dyn
    ELSE LET d1 == IF payload.container # "" /\ payload.rows # <<>>
                      /\ (looks_like_row_container(payload.container)
                          \/ payload.container \in Range(run.static_keys["iter_rows_keys"]))
                   THEN runtime_add_key(dyn, "iter_rows_keys", payload.container) ELSE dyn
             d2 == IF payload.container # "" /\ is_count_key(payload.count_key)
                   THEN runtime_add_key(runtime_add_key(d1, "has_hits_count_keys", payload.count_key),
                                        "row_count_keys", payload.count_key)
                   ELSE d1
         IN  LearnFields(d2, Concat(payload.rows))

\* the keys of a row
RowKeys(row) == {row[i][1] : i \in DOMAIN row}

\* the first of the fields of the row at the positions `hits`
FirstField(row, hits) == IF hits = {} THEN <<>> ELSE <<row[MinOf(hits)]>>

\* _get_path: a row without a value under an effective path key teaches the
\* first path-like field
get_path_learns(dyn, row, run) ==
    LET known == Range(effective_keys(run.static_keys, dyn, "path_keys")) \cap RowKeys(row)
        f == FirstField(row, {i \in DOMAIN row : row[i][2] = "repo_path"
                                                /\ is_path_key_candidate(row[i][1])})
    IN  IF known # {} \/ f = <<>> THEN dyn
        ELSE runtime_add_key(dyn, "path_keys", f[1][1])

\* _get_line_start
get_line_start_learns(dyn, row, run) ==
    LET known == Range(effective_keys(run.static_keys, dyn, "line_keys")) \cap RowKeys(row)
        f == FirstField(row, {i \in DOMAIN row : row[i][2] = "number"
                                                /\ is_line_key_candidate(row[i][1])})
    IN  IF known # {} \/ f = <<>> THEN dyn
        ELSE runtime_add_key(dyn, "line_keys", f[1][1])

\* _extract_line_text
extract_line_text_learns(dyn, row, run) ==
    LET eff == Range(effective_keys(run.static_keys, dyn, "snippet_keys"))
        known == {i \in DOMAIN row : row[i][1] \in eff /\ row[i][2] \in {"repo_path", "text"}}
        f == FirstField(row, {i \in DOMAIN row : row[i][2] \in {"repo_path", "text"}
                                                /\ is_snippet_key_candidate(row[i][1])})
    IN  IF known # {} \/ f = <<>> THEN dyn
        ELSE runtime_add_key(dyn, "snippet_keys", f[1][1])

(* Runs of key discovery *)

StaticKeySets ==
    { empty_runtime_key_state,
      [c \in KeyCategories |->
          CASE c = "path_keys" -> <<"file_path">>
            [] c = "line_keys" -> <<"line_start">>
            [] c = "snippet_keys" -> <<"snippet">>
            [] OTHER -> <<>>] }

\* what "<engine> schema --format json" gives: nothing, a contract without
\* columns, a contract whose columns carry no semantic role, a full contract
SchemaContracts ==
    { [available |-> FALSE, columns |-> <<>>, semantic_keys |-> empty_runtime_key_state],
      [available |-> TRUE, columns |-> <<>>, semantic_keys |-> empty_runtime_key_state],
      [available |-> TRUE, columns |-> <<"entity_id">>,
       semantic_keys |-> empty_runtime_key_state],
      [available |-> TRUE, columns |-> <<"file_path", "line_start", "snippet">>,
       semantic_keys |-> [c \in KeyCategories |->
          CASE c = "path_keys" -> <<"file_path">>
            [] c = "line_keys" -> <<"line_start">>
            [] c = "snippet_keys" -> <<"snippet">>
            [] OTHER -> <<>>]] }

ParquetColumnSets == { <<>>, <<"source_file", "line_start", "hit_count">> }

RunInputs ==
    { [engine |-> e, require_engine_schema_contract |-> req,
       allow_engine_registry_fallback |-> fb,
       fail_on_missing_semantic_categories |-> fm,
       dynamic_key_discovery_enabled |-> en, static_keys |-> st,
       contract |-> ct, parquet_columns |-> pq] :
        e \in {"rsqt", "custom"}, req \in BOOLEAN, fb \in BOOLEAN, fm \in BOOLEAN,
        en \in BOOLEAN, st \in StaticKeySets, ct \in SchemaContracts,
        pq \in ParquetColumnSets }

PayloadRows ==
    { << <<"source_file", "repo_path">>, <<"line_start", "number">> >>,
      << <<"snippet", "text">>, <<"file_path", "repo_path">> >>,
      << <<"entity_id", "text">>, <<"hit_count", "number">> >> }

Payloads ==
    { [container |-> c, count_key |-> n, rows |-> <<r>>] :
        c \in {"", "results"}, n \in {"", "hit_count"}, r \in PayloadRows }

\* the answer pipeline takes no part in the runs of key discovery
AnswerIdle ==
    /\ evidence_blocks = <<>>
    /\ allowed_citations = {}
    /\ allowed_built = FALSE
    /\ answer = <<>>
    /\ last_reply = <<>>
    /\ top_k = 0
    /\ adaptive_rerun_count = 0
    /\ schema_retry_count = 0
    /\ advice_retry_count = 0
    /\ retry_idx = 0
    /\ llm_dispatch = <<>>
    /\ schema_issues = <<>>
    /\ advice_quality_issues = FALSE
    /\ engine_added = {}

InitKeys ==
    /\ pc = "run_start"
    /\ cfg \in RunInputs
    /\ AnswerIdle
    /\ ExtIdle

\* _run_single up to the schema contract gate
InitializeRuntimeEvidenceKeys ==
    /\ pc = "run_start"
    /\ LET r == initialize_runtime_evidence_keys(cfg)
       IN  /\ runtime_dynamic_keys' = r.dyn
           /\ engine_schema_contract_loaded' = r.loaded
           /\ evidence_key_state' = r.effective
           /\ pc' = IF r.fatal THEN "run_aborted" ELSE "keys_ready"
    /\ UNCHANGED <<cfg, answervars, questions_started, preflights,
                   preflight_artifacts, preflight_rows_by_name, step_idx,
                   transform_events, runvars>>

StartQuestion ==
    /\ pc \in {"keys_ready", "question_running"}
    /\ questions_started < MaxQuestions
    /\ questions_started' = questions_started + 1
    /\ pc' = "question_running"
    /\ UNCHANGED <<cfg, answervars, runtime_dynamic_keys,
                   engine_schema_contract_loaded, evidence_key_state, preflights,
                   preflight_artifacts, preflight_rows_by_name, step_idx,
                   transform_events, runvars>>

\* the frame of the operations that only touch the learned keys
KeysFrame ==
    UNCHANGED <<pc, cfg, answervars, engine_schema_contract_loaded,
                evidence_key_state, questions_started, preflights,
                preflight_artifacts, preflight_rows_by_name, step_idx,
                transform_events, runvars>>

LearnKeysFromPayload ==
    /\ pc = "question_running"
    /\ \E payload \in Payloads :
          runtime_dynamic_keys' = learn_runtime_keys_from_payload(runtime_dynamic_keys, payload, cfg)
    /\ KeysFrame

GetPath ==
    /\ pc = "question_running"
    /\ \E row \in PayloadRows :
          runtime_dynamic_keys' = get_path_learns(runtime_dynamic_keys, row, cfg)
    /\ KeysFrame

GetLineStart ==
    /\ pc = "question_running"
    /\ \E row \in PayloadRows :
          runtime_dynamic_keys' = get_line_start_learns(runtime_dynamic_keys, row, cfg)
    /\ KeysFrame

ExtractLineText ==
    /\ pc = "question_running"
    /\ \E row \in PayloadRows :
          runtime_dynamic_keys' = extract_line_text_learns(runtime_dynamic_keys, row, cfg)
    /\ KeysFrame

NextKeys ==
    \/ InitializeRuntimeEvidenceKeys
    \/ StartQuestion
    \/ LearnKeysFromPayload
    \/ GetPath
    \/ GetLineStart
    \/ ExtractLineText

SpecKeys == InitKeys /\ [][NextKeys]_vars

-----------------------------------------------------------------------------
(* Properties of key discovery *)

\* s is an initial part of t
IsPrefixSeq(s, t) == Len(s) <= Len(t) /\ SubSeq(t, 1, Len(s)) = s

\* one step of an initialized run leaves each role's effective candidate list
\* as an initial part of the list the role has afterwards
EffectiveKeysGrow ==
    pc \in {"keys_ready", "question_running"} =>
        \A c \in KeyCategories :
            IsPrefixSeq(effective_keys(cfg.static_keys, runtime_dynamic_keys, c),
                        effective_keys(cfg.static_keys, runtime_dynamic_keys', c))

\* C18: once the run is initialized, every step leaves each role's effective
\* candidate list as an initial part of the list it has afterwards: keys are
\* only appended at the end, none is removed and none changes its place.
C18_EffectiveKeysAppendOnly == [][EffectiveKeysGrow]_vars

\* a role that had a candidate when the run started has learned another one
C18_Witness ==
    /\ pc = "question_running"
    /\ \E c \in KeyCategories :
          /\ evidence_key_state[c] # <<>>
          /\ Len(effective_keys(cfg.static_keys, runtime_dynamic_keys, c))
                > Len(evidence_key_state[c])

\* the run got no schema contract with columns from the engine
ContractNotLoadable == ~(cfg.contract.available /\ cfg.contract.columns # <<>>)

\* a required role has no candidate key after initialization
RequiredRoleMissing ==
    \E c \in RequiredSemanticKeyCategories : evidence_key_state[c] = <<>>

\* the run stopped at the schema contract gate, before its first question
AbortedBeforeQuestions == pc = "run_aborted" /\ questions_started = 0

\* C19 (as stated): whenever policy requires the engine schema contract and
\* none could be loaded, or a required role has no candidate key, the run is
\* aborted before any question.
C19_FailClosedAnyEngine ==
    (pc # "run_start"
        /\ \/ cfg.require_engine_schema_contract /\ ContractNotLoadable
           \/ cfg.fail_on_missing_semantic_categories /\ RequiredRoleMissing)
    => AbortedBeforeQuestions

\* C19: for an engine that has a schema contract (rsqt, raqt), a run whose
\* policy requires the contract is aborted before any question when no contract
\* could be loaded; for every engine, a run whose policy fails on missing roles
\* is aborted before any question when a required role has no candidate key;
\* a run that goes on to its questions has neither defect.
C19_FailClosedOnMissingContract ==
    /\ (pc # "run_start"
          /\ \/ /\ engine_supports_schema_contract(cfg.engine)
                /\ cfg.require_engine_schema_contract /\ ContractNotLoadable
             \/ cfg.fail_on_missing_semantic_categories /\ RequiredRoleMissing)
       => AbortedBeforeQuestions
    /\ pc \in {"keys_ready", "question_running"} =>
          /\ (engine_supports_schema_contract(cfg.engine)
                /\ cfg.require_engine_schema_contract) => engine_schema_contract_loaded
          /\ cfg.fail_on_missing_semantic_categories => ~RequiredRoleMissing

\* a run aborted only because the required contract could not be loaded,
\* although the fallback columns gave every required role a candidate
C19_Witness ==
    /\ AbortedBeforeQuestions
    /\ cfg.require_engine_schema_contract /\ ContractNotLoadable
    /\ ~RequiredRoleMissing

-----------------------------------------------------------------------------
(* Preflight steps of one question and the group_by_path_top_n transform *)

\* a step of q.preflight: its name ("" if unnamed), whether it has a cmd list,
\* and transform.group_by_path_top_n.from ("none": the step has no such
\* transform, "": the transform names no step)
Step(name, has_cmd, from) == [name |-> name, has_cmd |-> has_cmd, from |-> from]

\* one issue per step whose group_by_path_top_n.from is empty or names no
\* earlier step
validate_group_by_path_dependencies(steps) ==
    LET seen(i) == {steps[j].name : j \in 1 .. (i - 1)} \ {""}
        issue(i) ==
            IF steps[i].from = "none" THEN <<>>
            ELSE IF steps[i].from = "" THEN << [step |-> i, kind |-> "from_required"] >>
            ELSE IF steps[i].from \notin seen(i)
            THEN << [step |-> i, kind |-> "missing_or_later"] >>
            ELSE <<>>
    IN  Concat([i \in DOMAIN steps |-> issue(i)])

\* _top_paths_from_aggregate_rows for rows without counts: the paths of the
\* first top_n rows (a row is modelled by its path)
top_paths_from_aggregate_rows(rows, top_n) == Range(Prefix(rows, top_n))

\* _group_rows_by_path_and_limit
group_rows_by_path_and_limit(rows, allowed_paths, per_path) ==
    LET before(i) == Cardinality({j \in 1 .. (i - 1) : rows[j] = rows[i]})
        keep == {i \in DOMAIN rows : rows[i] \in allowed_paths /\ before(i) < per_path}
        RECURSIVE Pick(_)
        Pick(i) == IF i > Len(rows) THEN <<>>
                   ELSE (IF i \in keep THEN <<rows[i]>> ELSE <<>>) \o Pick(i + 1)
    IN  Pick(1)

\* the group_by_path_top_n part of _apply_transform_filters: the rows kept and
\* what happened ("missing_from": the warning branch; "no_ref_rows": the
\* referenced rows are empty and the rows pass unfiltered without a log entry)
apply_group_by_path_top_n(rows, from_name, ref_map) ==
    LET ref_rows == IF from_name \in DOMAIN ref_map THEN ref_map[from_name] ELSE <<>>
    IN  IF ref_rows # <<>>
        THEN [rows |-> group_rows_by_path_and_limit(
                          rows, top_paths_from_aggregate_rows(ref_rows, GroupByTopN),
                          GroupByPerPath),
              event |-> "applied"]
        ELSE [rows |-> rows,
              event |-> IF from_name # "" /\ from_name \notin DOMAIN ref_map
                        THEN "missing_from" ELSE "no_ref_rows"]

StepNames == {"", "agg", "detail"}

Steps ==
    { Step(n, c, f) : n \in StepNames, c \in BOOLEAN,
                      f \in {"none", "", "agg", "detail", "ghost"} }

\* preflight lists of one and of two steps
PreflightLists == { <<a>> : a \in Steps } \cup { <<a, b>> : a \in Steps, b \in Steps }

\* the rows a step's command can return, each row given by its path
StepRowSets == { <<>>, <<"src/lib.rs">>, <<"src/x.rs", "src/lib.rs">> }

InitPreflight ==
    /\ pc = "question_start"
    /\ cfg = GateConfig
    /\ AnswerIdle
    /\ runtime_dynamic_keys = empty_runtime_key_state
    /\ engine_schema_contract_loaded = FALSE
    /\ evidence_key_state = empty_runtime_key_state
    /\ questions_started = 1
    /\ preflights \in PreflightLists
    /\ preflight_artifacts = <<>>
    /\ preflight_rows_by_name = <<>>
    /\ step_idx = 0
    /\ transform_events = <<>>
    /\ RunIdle

\* the frame of the preflight actions
PreflightFrame ==
    UNCHANGED <<cfg, answervars, runtime_dynamic_keys,
                engine_schema_contract_loaded, evidence_key_state,
                questions_started, preflights, runvars>>

\* dependency_issues is not empty: raise SystemExit(2)
AbortOnDependencyIssues ==
    /\ pc = "question_start"
    /\ validate_group_by_path_dependencies(preflights) # <<>>
    /\ pc' = "run_aborted"
    /\ UNCHANGED <<preflight_artifacts, preflight_rows_by_name, step_idx, transform_events>>
    /\ PreflightFrame

BeginPreflights ==
    /\ pc = "question_start"
    /\ validate_group_by_path_dependencies(preflights) = <<>>
    /\ pc' = "preflight_exec"
    /\ step_idx' = 1
    /\ UNCHANGED <<preflight_artifacts, preflight_rows_by_name, transform_events>>
    /\ PreflightFrame

\* one pass of "for step in preflights": a step without a name or a cmd list
\* is passed over, any other step runs and leaves its artifact
ExecuteStep ==
    /\ pc = "preflight_exec"
    /\ step_idx <= Len(preflights)
    /\ LET step == preflights[step_idx]
       IN  IF step.name = "" \/ ~step.has_cmd
           THEN UNCHANGED preflight_artifacts
           ELSE \E rc \in {0, 1}, rows \in StepRowSets :
                   preflight_artifacts' =
                       (step.name :> [returncode |-> rc, rows |-> IF rc = 0 THEN rows ELSE <<>>])
                       @@ preflight_artifacts
    /\ step_idx' = step_idx + 1
    /\ UNCHANGED <<pc, preflight_rows_by_name, transform_events>>
    /\ PreflightFrame

ExecutionDone ==
    /\ pc = "preflight_exec"
    /\ step_idx > Len(preflights)
    /\ pc' = "preflight_filter"
    /\ step_idx' = 1
    /\ UNCHANGED <<preflight_artifacts, preflight_rows_by_name, transform_events>>
    /\ PreflightFrame

\* one pass of "for _pstep in preflights": the rows of a named step whose
\* artifact has returncode 0 are filtered, kept under the step's name and
\* written back to the artifact
FilterStep ==
    /\ pc = "preflight_filter"
    /\ step_idx <= Len(preflights)
    /\ LET step == preflights[step_idx]
           has_art == step.name # "" /\ step.name \in DOMAIN preflight_artifacts
       IN  IF has_art /\ preflight_artifacts[step.name].returncode = 0
           THEN LET rows == preflight_artifacts[step.name].rows
                    r == IF step.from = "none"
                         THEN [rows |-> rows, event |-> "none"]
                         ELSE apply_group_by_path_top_n(rows, step.from, preflight_rows_by_name)
                IN  /\ preflight_rows_by_name' = (step.name :> r.rows) @@ preflight_rows_by_name
                    /\ preflight_artifacts' =
                          (step.name :> [returncode |-> 0, rows |-> r.rows]) @@ preflight_artifacts
                    /\ transform_events' =
                          IF r.event = "none" THEN transform_events
                          ELSE Append(transform_events,
                                      [step |-> step_idx, from |-> step.from,
                                       event |-> r.event, rows_in |-> rows,
                                       rows_out |-> r.rows])
           ELSE UNCHANGED <<preflight_artifacts, preflight_rows_by_name, transform_events>>
    /\ step_idx' = step_idx + 1
    /\ UNCHANGED pc
    /\ PreflightFrame

FilteringDone ==
    /\ pc = "preflight_filter"
    /\ step_idx > Len(preflights)
    /\ pc' = "evidence_ready"
    /\ UNCHANGED <<preflight_artifacts, preflight_rows_by_name, step_idx, transform_events>>
    /\ PreflightFrame

NextPreflight ==
    \/ AbortOnDependencyIssues
    \/ BeginPreflights
    \/ ExecuteStep
    \/ ExecutionDone
    \/ FilterStep
    \/ FilteringDone

SpecPreflight == InitPreflight /\ [][NextPreflight]_vars

-----------------------------------------------------------------------------
(* Properties of the preflight steps *)

\* step j ran in the execution loop before the filters were applied
Executed(j) == preflights[j].name # "" /\ preflights[j].has_cmd

\* the group_by_path_top_n of step i names no step, or no earlier step
BadReference(i) ==
    /\ preflights[i].from # "none"
    /\ \/ preflights[i].from = ""
       \/ \A j \in 1 .. (i - 1) : preflights[j].name # preflights[i].from

\* C20: a group_by_path_top_n filter is applied only with the rows of a named
\* step that ran earlier in the question; a reference to a missing, unnamed or
\* later step aborts the run before any step runs; and no such filter is
\* passed over because the step it names produced no rows by running.
C20_GroupingDependency ==
    /\ \A i \in DOMAIN transform_events :
          LET e == transform_events[i]
          IN  /\ e.event = "applied"
              /\ \E j \in 1 .. (e.step - 1) : preflights[j].name = e.from /\ Executed(j)
    /\ (pc # "question_start" /\ \E i \in DOMAIN preflights : BadReference(i))
          => (pc = "run_aborted" /\ preflight_artifacts = <<>>)

-----------------------------------------------------------------------------
(* Transform filters of a preflight step (_apply_transform_filters) *)

(* A row is a sequence of fields <<key, kind, value>> in the order of          *)
(* row.items().  A regex is given by the set of strings it matches.            *)

\* the rows at the positions `keep`, in order
RECURSIVE KeepRows(_, _)
KeepRows(rows, keep) ==
    IF rows = <<>> THEN <<>>
    ELSE (IF 1 \in keep THEN <<Head(rows)>> ELSE <<>>)
         \o KeepRows(Tail(rows), {i - 1 : i \in keep \ {1}})

\* row.get(k), "" if the row has no such key
RowGet(row, k) ==
    IF k \in RowKeys(row) THEN (CHOOSE f \in Range(row) : f[1] = k)[3] ELSE ""

\* _get_path: the value under the first effective path key the row has, else
\* the first path-like field that looks like a repository path, else ""
get_path(dyn, row, run) ==
    LET eff == effective_keys(run.static_keys, dyn, "path_keys")
        hits == {i \in DOMAIN eff : eff[i] \in RowKeys(row)}
        f == FirstField(row, {i \in DOMAIN row : row[i][2] = "repo_path"
                                                /\ is_path_key_candidate(row[i][1])})
    IN  IF hits # {} THEN RowGet(row, eff[MinOf(hits)])
        ELSE IF f # <<>> THEN f[1][3]
        ELSE ""

\* _extract_line_text: the string under the first effective snippet key, else
\* the first snippet-like string field, else ""
extract_line_text(dyn, row, run) ==
    LET eff == effective_keys(run.static_keys, dyn, "snippet_keys")
        is_str(k) == \E f \in Range(row) : f[1] = k /\ f[2] \in {"repo_path", "text"}
        hits == {i \in DOMAIN eff : is_str(eff[i])}
        f == FirstField(row, {i \in DOMAIN row : row[i][2] \in {"repo_path", "text"}
                                                /\ is_snippet_key_candidate(row[i][1])})
    IN  IF hits # {} THEN RowGet(row, eff[MinOf(hits)])
        ELSE IF f # <<>> THEN f[1][3]
        ELSE ""

\* [_get_path(r) for r in rows]: the paths, and the keys learned on the way
RECURSIVE ScanPaths(_, _, _)
ScanPaths(dyn, rows, run) ==
    IF rows = <<>> THEN [dyn |-> dyn, vals |-> <<>>]
    ELSE LET rest == ScanPaths(get_path_learns(dyn, Head(rows), run), Tail(rows), run)
         IN  [dyn |-> rest.dyn, vals |-> <<get_path(dyn, Head(rows), run)>> \o rest.vals]

\* [_extract_line_text(r) for r in rows]
RECURSIVE ScanTexts(_, _, _)
ScanTexts(dyn, rows, run) ==
    IF rows = <<>> THEN [dyn |-> dyn, vals |-> <<>>]
    ELSE LET rest == ScanTexts(extract_line_text_learns(dyn, Head(rows), run), Tail(rows), run)
         IN  [dyn |-> rest.dyn, vals |-> <<extract_line_text(dyn, Head(rows), run)>> \o rest.vals]

\* _is_test_file with the default test path patterns
is_test_file(path) == path \in {"tests/t.rs"}

\* _is_comment_line
is_comment_line(text) == text \in {"// note"}

\* _has_real_doc
has_real_doc(row) == RowGet(row, "doc") # ""

\* _top_paths_from_aggregate_rows for rows of fields without counts
top_paths_of(paths, top_n) == Range(Prefix(SelectSeq(paths, LAMBDA p : p # ""), top_n))

\* _group_rows_by_path_and_limit: the positions of the rows kept
group_keep(paths, allowed_paths, per_path) ==
    {i \in DOMAIN paths :
        /\ paths[i] \in allowed_paths
        /\ Cardinality({j \in 1 .. (i - 1) : paths[j] = paths[i]}) < per_path}

\* the filters of a transform, in the order of _apply_transform_filters; st is
\* [rows, dyn]; ref_map is ctx["preflight_rows_by_name"]
include_path_filter(st, transform, run) ==
    IF transform.include_path_regex = {} THEN st
    ELSE LET s == ScanPaths(st.dyn, st.rows, run)
         IN  [rows |-> KeepRows(st.rows, {i \in DOMAIN st.rows :
                          s.vals[i] # "" /\ s.vals[i] \in transform.include_path_regex}),
              dyn |-> s.dyn]

exclude_path_filter(st, transform, run) ==
    LET exclude_patterns == IF transform.has_exclude_path_regex
                            THEN transform.exclude_path_regex
                            ELSE transform.default_exclude_path_regex
    IN  IF exclude_patterns = {} THEN st
        ELSE LET s == ScanPaths(st.dyn, st.rows, run)
             IN  [rows |-> KeepRows(st.rows, {i \in DOMAIN st.rows :
                              s.vals[i] \notin exclude_patterns}),
                  dyn |-> s.dyn]

exclude_test_files_filter(st, transform, run) ==
    IF ~transform.exclude_test_files THEN st
    ELSE LET s == ScanPaths(st.dyn, st.rows, run)
         IN  [rows |-> KeepRows(st.rows, {i \in DOMAIN st.rows : ~is_test_file(s.vals[i])}),
              dyn |-> s.dyn]

exclude_comments_filter(st, transform, run) ==
    IF ~transform.exclude_comments THEN st
    ELSE LET s == ScanTexts(st.dyn, st.rows, run)
         IN  [rows |-> KeepRows(st.rows, {i \in DOMAIN st.rows : ~is_comment_line(s.vals[i])}),
              dyn |-> s.dyn]

\* require_contains is given by the set of line texts that contain the string
require_contains_filter(st, transform, run) ==
    IF transform.require_contains = {} THEN st
    ELSE LET s == ScanTexts(st.dyn, st.rows, run)
         IN  [rows |-> KeepRows(st.rows, {i \in DOMAIN st.rows :
                          s.vals[i] \in transform.require_contains}),
              dyn |-> s.dyn]

\* c.search(f"{_get_path(r) or ''}\n{_extract_line_text(r)}"): the regex hits
\* the path or the line text; the two are read row by row
RECURSIVE ScanPathsAndTexts(_, _, _)
ScanPathsAndTexts(dyn, rows, run) ==
    IF rows = <<>> THEN [dyn |-> dyn, vals |-> <<>>]
    ELSE LET d1 == get_path_learns(dyn, Head(rows), run)
             d2 == extract_line_text_learns(d1, Head(rows), run)
             rest == ScanPathsAndTexts(d2, Tail(rows), run)
         IN  [dyn |-> rest.dyn,
              vals |-> << <<get_path(dyn, Head(rows), run),
                            extract_line_text(d1, Head(rows), run)>> >> \o rest.vals]

require_regex_filter(st, transform, run) ==
    IF transform.require_regex = {} THEN st
    ELSE LET s == ScanPathsAndTexts(st.dyn, st.rows, run)
         IN  [rows |-> KeepRows(st.rows, {i \in DOMAIN st.rows :
                          \/ s.vals[i][1] \in transform.require_regex
                          \/ s.vals[i][2] \in transform.require_regex}),
              dyn |-> s.dyn]

\* gbp is [from, top_n, per_path], or [from |-> "none"] without the transform
group_by_path_filter(st, transform, ref_map, run) ==
    LET gbp == transform.group_by_path_top_n
        ref_rows == IF gbp.from \in DOMAIN ref_map THEN ref_map[gbp.from] ELSE <<>>
    IN  IF gbp.from = "none" \/ ref_map = <<>> \/ ref_rows = <<>> THEN st
        ELSE LET r == ScanPaths(st.dyn, ref_rows, run)
                 s == ScanPaths(r.dyn, st.rows, run)
             IN  [rows |-> KeepRows(st.rows,
                              group_keep(s.vals, top_paths_of(r.vals, gbp.top_n), gbp.per_path)),
                  dyn |-> s.dyn]

compact_docs_filter(st, transform) ==
    IF transform.filter_fn # "compact_docs" THEN st
    ELSE [rows |-> KeepRows(st.rows, {i \in DOMAIN st.rows : has_real_doc(st.rows[i])}),
          dyn |-> st.dyn]

\* _apply_transform_filters: the rows kept and the learned keys afterwards
apply_transform_filters(dyn, rows, transform, ref_map, run) ==
    LET s1 == include_path_filter([rows |-> rows, dyn |-> dyn], transform, run)
        s2 == exclude_path_filter(s1, transform, run)
        s3 == exclude_test_files_filter(s2, transform, run)
        s4 == exclude_comments_filter(s3, transform, run)
        s5 == require_contains_filter(s4, transform, run)
        s6 == require_regex_filter(s5, transform, run)
        s7 == group_by_path_filter(s6, transform, ref_map, run)
    IN  compact_docs_filter(s7, transform)

(* Runs that apply one transform twice *)

\* rows of a search result
FilterRowUniverse ==
    { << <<"file_path", "repo_path", "src/lib.rs">>, <<"snippet", "text", "let x = 1;">> >>,
      << <<"file_path", "repo_path", "tests/t.rs">>, <<"snippet", "text", "// note">> >>,
      << <<"source_file", "text", "generated">>, <<"doc", "text", "Docs.">> >>,
      << <<"source_file", "repo_path", "src/x.rs">>, <<"snippet", "text", "let x = 1;">> >> }

FilterRowSeqs ==
    { <<a>> : a \in FilterRowUniverse }
    \cup { <<a, b>> : a \in FilterRowUniverse, b \in FilterRowUniverse }

\* a transform without any filter
NoTransform ==
    [include_path_regex |-> {}, has_exclude_path_regex |-> FALSE,
     exclude_path_regex |-> {}, default_exclude_path_regex |-> {},
     exclude_test_files |-> FALSE, exclude_comments |-> FALSE,
     require_contains |-> {}, require_regex |-> {},
     group_by_path_top_n |-> [from |-> "none"], filter_fn |-> ""]

\* transforms with one filter each, and one with two
Transforms ==
    { [NoTransform EXCEPT !.include_path_regex = {"src/lib.rs", "src/x.rs"}],
      [NoTransform EXCEPT !.has_exclude_path_regex = TRUE, !.exclude_path_regex = {"generated"}],
      [NoTransform EXCEPT !.default_exclude_path_regex = {"tests/t.rs"}],
      [NoTransform EXCEPT !.has_exclude_path_regex = TRUE,
                          !.default_exclude_path_regex = {"tests/t.rs"}],
      [NoTransform EXCEPT !.exclude_test_files = TRUE],
      [NoTransform EXCEPT !.exclude_comments = TRUE],
      [NoTransform EXCEPT !.require_contains = {"let x = 1;"}],
      [NoTransform EXCEPT !.require_regex = {"src/x.rs", "// note"}],
      [NoTransform EXCEPT !.group_by_path_top_n = [from |-> "agg", top_n |-> GroupByTopN,
                                                   per_path |-> 1]],
      [NoTransform EXCEPT !.group_by_path_top_n = [from |-> "agg", top_n |-> 1,
                                                   per_path |-> GroupByPerPath]],
      [NoTransform EXCEPT !.filter_fn = "compact_docs"],
      [NoTransform EXCEPT !.exclude_test_files = TRUE, !.exclude_comments = TRUE,
                          !.require_regex = {"src/lib.rs", "generated"}] }

\* ctx["preflight_rows_by_name"]: the rows of the aggregate step
RefMaps ==
    { <<>>,
      "agg" :> << << <<"file_path", "repo_path", "src/lib.rs">> >>,
                  << <<"file_path", "repo_path", "tests/t.rs">> >> >> }

FilterStaticKeySets ==
    { empty_runtime_key_state,
      [c \in KeyCategories |->
          CASE c = "path_keys" -> <<"file_path">>
            [] c = "snippet_keys" -> <<"snippet">>
            [] OTHER -> <<>>] }

InitFilter ==
    /\ pc = "filter_start"
    /\ cfg \in { [static_keys |-> st, transform |-> t, rows |-> rows] :
                    st \in FilterStaticKeySets, t \in Transforms, rows \in FilterRowSeqs }
    /\ AnswerIdle
    /\ runtime_dynamic_keys = empty_runtime_key_state
    /\ engine_schema_contract_loaded = FALSE
    /\ evidence_key_state = empty_runtime_key_state
    /\ questions_started = 1
    /\ preflights = <<>>
    /\ preflight_artifacts = <<>>
    /\ preflight_rows_by_name \in RefMaps
    /\ step_idx = 0
    /\ transform_events = <<>>
    /\ RunIdle

FilterFrame ==
    UNCHANGED <<cfg, answervars, engine_schema_contract_loaded, evidence_key_state,
                questions_started, preflights, preflight_artifacts,
                preflight_rows_by_name, step_idx, runvars>>

\* filtered = _apply_transform_filters(rows, transform, ctx=...)
ApplyTransformFilters ==
    /\ pc = "filter_start"
    /\ LET r == apply_transform_filters(runtime_dynamic_keys, cfg.rows, cfg.transform,
                                        preflight_rows_by_name, cfg)
       IN  /\ transform_events' = Append(transform_events,
                                         [rows_in |-> cfg.rows, rows_out |-> r.rows])
           /\ runtime_dynamic_keys' = r.dyn
    /\ pc' = "filtered_once"
    /\ FilterFrame

\* the same transform applied to the rows it returned
ReapplyTransformFilters ==
    /\ pc = "filtered_once"
    /\ LET rows == Last(transform_events).rows_out
           r == apply_transform_filters(runtime_dynamic_keys, rows, cfg.transform,
                                        preflight_rows_by_name, cfg)
       IN  /\ transform_events' = Append(transform_events,
                                         [rows_in |-> rows, rows_out |-> r.rows])
           /\ runtime_dynamic_keys' = r.dyn
    /\ pc' = "filtered_twice"
    /\ FilterFrame

NextFilter == ApplyTransformFilters \/ ReapplyTransformFilters

SpecFilter == InitFilter /\ [][NextFilter]_vars

-----------------------------------------------------------------------------
(* Properties of the transform filters *)

\* C21: applying a transform to the rows it returned gives the same rows, for
\* every transform and every row sequence.
C21_FilterIdempotent ==
    pc = "filtered_twice" => transform_events[2].rows_out = transform_events[1].rows_out

-----------------------------------------------------------------------------
(* Preflight artifacts of a run: signature cache, filtering, evidence *)

(* An artifact is the JSON file out_dir/{q.id}_{name}.json, keyed here by      *)
(* <<position of the question, step name>>.  The engine is a function of the   *)
(* command: the signature of a step is built from its argv and the inputs of   *)
(* the run, so steps with the same cmd have the same signature.                *)

\* a step of q.preflight with a cmd list and a transform
CacheStep(name, cmd, transform) == [name |-> name, cmd |-> cmd, transform |-> transform]

\* build_artifact_signature(argv, inputs): the inputs are those of the run
build_artifact_signature(step) == step.cmd

\* art = {"_sig", "argv", "returncode", "stdout", "stderr"} as first written
FreshArtifact(sig, res) ==
    [sig |-> sig, returncode |-> res.returncode, shape |-> res.shape,
     rows |-> res.rows, has_raw |-> FALSE, stdout_raw |-> <<>>,
     stdout_filtered |-> FALSE, rows_before |-> -1, rows_after |-> -1,
     filtered_to_zero |-> FALSE]

\* the stdout of an artifact as a payload of _learn_runtime_keys_from_payload
ArtifactPayload(art) ==
    [container |-> IF art.shape = "dict" THEN "results" ELSE "",
     count_key |-> "", rows |-> art.rows]

\* _replace_rows_in_stdout: only a dict carries the _stdout_filtered_to_zero flag
replace_rows_in_stdout(art, rows, filtered_to_zero) ==
    [art EXCEPT !.rows = rows,
                !.filtered_to_zero = IF art.shape = "dict" THEN filtered_to_zero ELSE @]

\* _nonempty_stdout for a list or a dict of rows
nonempty_stdout(art) ==
    IF art.shape = "list" THEN art.rows # <<>>
    ELSE art.rows # <<>> \/ ~art.filtered_to_zero

\* _has_preflight_hits for a list or a dict of rows without count fields
has_preflight_hits(art) ==
    IF art.shape = "list" THEN art.rows # <<>>
    ELSE ~art.filtered_to_zero /\ art.rows # <<>>

\* lines 5245-5263: the filtered rows are written back to the artifact
persist_filtered_stdout(art, rows) ==
    LET raw_count == Len(art.rows)
        new_count == Len(rows)
    IN  IF raw_count # new_count \/ ~art.stdout_filtered
        THEN [replace_rows_in_stdout(art, rows, raw_count > 0 /\ new_count = 0)
                 EXCEPT !.has_raw = TRUE,
                        !.stdout_raw = IF art.has_raw THEN @ ELSE art.rows,
                        !.stdout_filtered = TRUE,
                        !.rows_before = raw_count,
                        !.rows_after = new_count]
        ELSE art

(* Packs, engines and policies of the runs *)

CacheRowLib   == << <<"file_path", "repo_path", "src/lib.rs">>, <<"snippet", "text", "let x = 1;">> >>
CacheRowTests == << <<"file_path", "repo_path", "tests/t.rs">>, <<"snippet", "text", "// note">> >>
CacheRowX     == << <<"file_path", "repo_path", "src/x.rs">>, <<"snippet", "text", "let x = 1;">> >>

ExcludeLib   == [NoTransform EXCEPT !.has_exclude_path_regex = TRUE,
                                    !.exclude_path_regex = {"src/lib.rs"}]
ExcludeTests == [NoTransform EXCEPT !.has_exclude_path_regex = TRUE,
                                    !.exclude_path_regex = {"tests/t.rs"}]
ExcludeAll   == [NoTransform EXCEPT !.has_exclude_path_regex = TRUE,
                                    !.exclude_path_regex = {"src/lib.rs", "tests/t.rs", "src/x.rs"}]

\* the preflight lists of the questions of a pack
CachePacks ==
    LET a == CacheStep("a", "search", ExcludeLib)
        b == CacheStep("b", "search", ExcludeTests)
        c == CacheStep("c", "docs", NoTransform)
        z == CacheStep("z", "search", ExcludeAll)
    IN  { << <<a>> >>, << <<a>>, <<b>> >>, << <<a, b>> >>, << <<a>>, <<a>> >>,
          << <<z>> >>, << <<z, c>> >>, << <<z>>, <<b>> >>, << <<c>>, <<a, c>> >> }

\* what the engine returns for each cmd
CacheEngines ==
    { ("search" :> s) @@ ("docs" :> d) :
        s \in { [returncode |-> 0, shape |-> "list",
                 rows |-> <<CacheRowTests, CacheRowLib, CacheRowX>>],
                [returncode |-> 0, shape |-> "dict",
                 rows |-> <<CacheRowTests, CacheRowLib, CacheRowX>>],
                [returncode |-> 1, shape |-> "list", rows |-> <<>>] },
        d \in { [returncode |-> 0, shape |-> "list", rows |-> <<CacheRowLib>>],
                [returncode |-> 0, shape |-> "dict", rows |-> <<>>] } }

\* (PREFLIGHT_FILTERED_TO_ZERO_FAIL_ENABLED, PREFLIGHT_FILTERED_TO_ZERO_FAIL_FAST)
FilteredToZeroProfiles == { <<TRUE, TRUE>>, <<TRUE, FALSE>>, <<FALSE, FALSE>> }

\* (STRICT_FAIL_ON_EMPTY_EVIDENCE, STRICT_EMPTY_EVIDENCE_FAIL_FAST)
StrictEvidenceProfiles == { <<TRUE, TRUE>>, <<TRUE, FALSE>>, <<FALSE, FALSE>> }

CacheRunInputs ==
    { [questions |-> pack, engine |-> eng,
       cache_preflights |-> again, run_again |-> again,
       raw_rows_threshold |-> th,
       filtered_to_zero_fail_enabled |-> fz[1], filtered_to_zero_fail_fast |-> fz[2],
       strict_fail_on_empty_evidence |-> se[1], strict_empty_evidence_fail_fast |-> se[2],
       dynamic_key_discovery_enabled |-> TRUE,
       static_keys |-> [c \in KeyCategories |->
          CASE c = "path_keys" -> <<"file_path">>
            [] c = "snippet_keys" -> <<"snippet">>
            [] c = "iter_rows_keys" -> <<"results">>
            [] OTHER -> <<>>]] :
        pack \in CachePacks, eng \in CacheEngines, again \in BOOLEAN,
        th \in {1, 3}, fz \in FilteredToZeroProfiles, se \in StrictEvidenceProfiles }

\* the variables the preflight runs leave alone
cacheidle == <<allowed_citations, allowed_built, answer, last_reply, top_k,
               adaptive_rerun_count, schema_retry_count, advice_retry_count,
               retry_idx, llm_dispatch, schema_issues, advice_quality_issues,
               engine_added, engine_schema_contract_loaded, evidence_key_state,
               transform_events, fatal_advice_gate_issues>>

InitCache ==
    /\ pc = "question_start"
    /\ cfg \in CacheRunInputs
    /\ AnswerIdle
    /\ runtime_dynamic_keys = empty_runtime_key_state
    /\ engine_schema_contract_loaded = FALSE
    /\ evidence_key_state = empty_runtime_key_state
    /\ questions_started = 0
    /\ preflights = <<>>
    /\ preflight_artifacts = <<>>
    /\ preflight_rows_by_name = <<>>
    /\ step_idx = 0
    /\ transform_events = <<>>
    /\ preflight_sig_cache = <<>>
    /\ preflight_filtered_to_zero_failures = <<>>
    /\ report_lines = <<"header">>
    /\ report_file = <<>>
    /\ fatal_contract_issues = <<>>
    /\ fatal_advice_gate_issues = <<>>
    /\ runs_started = 1

\* out_file = out_dir / f"{q.id}_{name}.json"
OutFile(name) == <<questions_started, name>>

\* lines 4964-4997: the next question of the pack begins
BeginQuestion ==
    /\ pc = "question_start"
    /\ questions_started < Len(cfg.questions)
    /\ questions_started' = questions_started + 1
    /\ preflights' = cfg.questions[questions_started + 1]
    /\ evidence_blocks' = <<>>
    /\ preflight_filtered_to_zero_failures' = <<>>
    /\ report_lines' = Append(report_lines, "question")
    /\ step_idx' = 1
    /\ pc' = "preflight_exec"
    /\ UNCHANGED <<cfg, cacheidle, runtime_dynamic_keys, preflight_artifacts,
                   preflight_rows_by_name, preflight_sig_cache, report_file,
                   fatal_contract_issues, runs_started>>

\* lines 5035-5208, one pass of "for step in preflights": the artifact of the
\* step is taken from out_dir, copied from the signature cache, or produced by
\* running the engine
RunPreflightStep ==
    /\ pc = "preflight_exec"
    /\ step_idx <= Len(preflights)
    /\ LET step == preflights[step_idx]
           out_file == OutFile(step.name)
           sig == build_artifact_signature(step)
           exists == out_file \in DOMAIN preflight_artifacts
           cache_hit == sig \in DOMAIN preflight_sig_cache
       IN  IF cfg.cache_preflights /\ exists /\ preflight_artifacts[out_file].sig = sig
           THEN UNCHANGED <<preflight_artifacts, runtime_dynamic_keys>>
           ELSE IF ~exists /\ cache_hit
           THEN /\ preflight_artifacts' =
                      (out_file :> preflight_artifacts[preflight_sig_cache[sig]])
                      @@ preflight_artifacts
                /\ UNCHANGED runtime_dynamic_keys
           ELSE LET art == FreshArtifact(sig, cfg.engine[step.cmd])
                IN  /\ preflight_artifacts' = (out_file :> art) @@ preflight_artifacts
                    /\ runtime_dynamic_keys' =
                          learn_runtime_keys_from_payload(runtime_dynamic_keys,
                                                          ArtifactPayload(art), cfg)
    /\ preflight_sig_cache' =
          LET step == preflights[step_idx]
          IN  (build_artifact_signature(step) :> OutFile(step.name)) @@ preflight_sig_cache
    /\ step_idx' = step_idx + 1
    /\ UNCHANGED <<pc, cfg, cacheidle, evidence_blocks, questions_started, preflights,
                   preflight_rows_by_name, preflight_filtered_to_zero_failures,
                   report_lines, report_file, fatal_contract_issues, runs_started>>

\* line 5214: preflight_rows_by_name = {}
PreflightsRun ==
    /\ pc = "preflight_exec"
    /\ step_idx > Len(preflights)
    /\ preflight_rows_by_name' = <<>>
    /\ step_idx' = 1
    /\ pc' = "preflight_filter"
    /\ UNCHANGED <<cfg, cacheidle, evidence_blocks, runtime_dynamic_keys,
                   questions_started, preflights, preflight_artifacts,
                   preflight_sig_cache, preflight_filtered_to_zero_failures,
                   report_lines, report_file, fatal_contract_issues, runs_started>>

\* lines 5215-5296, one pass of "for _pstep in preflights": the rows of the
\* artifact's stdout are filtered, kept under the step's name and written back
FilterArtifact ==
    /\ pc = "preflight_filter"
    /\ step_idx <= Len(preflights)
    /\ LET step == preflights[step_idx]
           part_path == OutFile(step.name)
       IN  IF part_path \in DOMAIN preflight_artifacts
              /\ preflight_artifacts[part_path].returncode = 0
           THEN LET art == preflight_artifacts[part_path]
                    d1 == learn_runtime_keys_from_payload(runtime_dynamic_keys,
                                                          ArtifactPayload(art), cfg)
                    r == apply_transform_filters(d1, art.rows, step.transform,
                                                 preflight_rows_by_name, cfg)
                IN  /\ runtime_dynamic_keys' = r.dyn
                    /\ preflight_rows_by_name' = (step.name :> r.rows) @@ preflight_rows_by_name
                    /\ preflight_artifacts' =
                          (part_path :> persist_filtered_stdout(art, r.rows))
                          @@ preflight_artifacts
           ELSE UNCHANGED <<runtime_dynamic_keys, preflight_rows_by_name, preflight_artifacts>>
    /\ step_idx' = step_idx + 1
    /\ UNCHANGED <<pc, cfg, cacheidle, evidence_blocks, questions_started, preflights,
                   preflight_sig_cache, preflight_filtered_to_zero_failures,
                   report_lines, report_file, fatal_contract_issues, runs_started>>

ArtifactsFiltered ==
    /\ pc = "preflight_filter"
    /\ step_idx > Len(preflights)
    /\ step_idx' = 1
    /\ pc' = "evidence_inject"
    /\ UNCHANGED <<cfg, cacheidle, evidence_blocks, runtime_dynamic_keys,
                   questions_started, preflights, preflight_artifacts,
                   preflight_rows_by_name, preflight_sig_cache,
                   preflight_filtered_to_zero_failures, report_lines, report_file,
                   fatal_contract_issues, runs_started>>

\* lines 5301-5475, one pass of the evidence loop: a successful artifact with
\* non-empty stdout becomes an evidence block; a block without usable
\* evidence whose pre-filter count reaches the threshold is a starvation failure
InjectEvidence ==
    /\ pc = "evidence_inject"
    /\ step_idx <= Len(preflights)
    /\ LET step == preflights[step_idx]
           art_path == OutFile(step.name)
       IN  IF art_path \in DOMAIN preflight_artifacts
              /\ preflight_artifacts[art_path].returncode = 0
              /\ nonempty_stdout(preflight_artifacts[art_path])
           THEN LET art == preflight_artifacts[art_path]
                    d1 == learn_runtime_keys_from_payload(runtime_dynamic_keys,
                                                          ArtifactPayload(art), cfg)
                    pre_filter_count == IF art.rows_before >= 0 THEN art.rows_before
                                        ELSE Len(art.rows)
                    r == IF art.rows # <<>> /\ ~art.stdout_filtered
                         THEN apply_transform_filters(d1, art.rows, step.transform,
                                                      preflight_rows_by_name, cfg)
                         ELSE [rows |-> art.rows, dyn |-> d1]
                    stdout_data == IF art.rows # <<>>
                                   THEN replace_rows_in_stdout(
                                            art, r.rows,
                                            pre_filter_count > 0 /\ r.rows = <<>>)
                                   ELSE art
                    usable == has_preflight_hits(stdout_data)
                IN  /\ runtime_dynamic_keys' = r.dyn
                    /\ evidence_blocks' =
                          Append(evidence_blocks,
                                 [step |-> step.name, rows |-> stdout_data.rows,
                                  usable |-> usable,
                                  pre_filter_count |-> pre_filter_count])
                    /\ preflight_filtered_to_zero_failures' =
                          IF ~usable /\ cfg.filtered_to_zero_fail_enabled
                             /\ pre_filter_count >= cfg.raw_rows_threshold
                          THEN Append(preflight_filtered_to_zero_failures,
                                      [step |-> step.name, rows_before |-> pre_filter_count])
                          ELSE preflight_filtered_to_zero_failures
           ELSE UNCHANGED <<runtime_dynamic_keys, evidence_blocks,
                            preflight_filtered_to_zero_failures>>
    /\ step_idx' = step_idx + 1
    /\ UNCHANGED <<pc, cfg, cacheidle, questions_started, preflights,
                   preflight_artifacts, preflight_rows_by_name, preflight_sig_cache,
                   report_lines, report_file, fatal_contract_issues, runs_started>>

\* lines 5558-5659: the preflight starvation gate, then the strict evidence
\* presence gate; a fail-fast gate writes the partial report and exits
EvidenceGates ==
    /\ pc = "evidence_inject"
    /\ step_idx > Len(preflights)
    /\ LET starved == preflight_filtered_to_zero_failures # <<>>
           abort1 == starved /\ cfg.filtered_to_zero_fail_fast
           lines1 == IF starved THEN Append(report_lines, "starvation_gate") ELSE report_lines
           fatal1 == IF starved
                     THEN Append(fatal_contract_issues,
                                 [question |-> questions_started, kind |-> "filtered_to_zero"])
                     ELSE fatal_contract_issues
           empty == cfg.strict_fail_on_empty_evidence /\ evidence_is_empty(evidence_blocks)
           abort2 == empty /\ cfg.strict_empty_evidence_fail_fast
       IN  IF abort1
           THEN /\ report_lines' = lines1
                /\ fatal_contract_issues' = fatal1
                /\ report_file' = lines1
                /\ pc' = "run_aborted"
           ELSE /\ report_lines' = IF empty THEN Append(lines1, "evidence_gate") ELSE lines1
                /\ fatal_contract_issues' =
                      IF empty
                      THEN Append(fatal1, [question |-> questions_started,
                                           kind |-> "empty_evidence"])
                      ELSE fatal1
                /\ report_file' = IF abort2 THEN report_lines' ELSE report_file
                /\ pc' = IF abort2 THEN "run_aborted" ELSE "question_done"
    /\ UNCHANGED <<cfg, cacheidle, evidence_blocks, runtime_dynamic_keys,
                   questions_started, preflights, preflight_artifacts,
                   preflight_rows_by_name, step_idx, preflight_sig_cache,
                   preflight_filtered_to_zero_failures, runs_started>>

\* the answer of the question is not part of these runs
QuestionAnswered ==
    /\ pc = "question_done"
    /\ pc' = "question_start"
    /\ UNCHANGED <<cfg, cacheidle, evidence_blocks, runtime_dynamic_keys,
                   questions_started, preflights, preflight_artifacts,
                   preflight_rows_by_name, step_idx, preflight_sig_cache,
                   preflight_filtered_to_zero_failures, report_lines, report_file,
                   fatal_contract_issues, runs_started>>

\* lines 6464-6580: the report is written, the run exits
FinishRun ==
    /\ pc = "question_start"
    /\ questions_started = Len(cfg.questions)
    /\ report_file' = report_lines
    /\ pc' = IF fatal_contract_issues # <<>> THEN "exit_2" ELSE "exit_0"
    /\ UNCHANGED <<cfg, cacheidle, evidence_blocks, runtime_dynamic_keys,
                   questions_started, preflights, preflight_artifacts,
                   preflight_rows_by_name, step_idx, preflight_sig_cache,
                   preflight_filtered_to_zero_failures, report_lines,
                   fatal_contract_issues, runs_started>>

\* the same pack is run once more on the same out_dir: the artifacts stay,
\* the state of the process starts afresh
RunAgain ==
    /\ pc \in {"exit_0", "exit_2", "run_aborted"}
    /\ cfg.run_again /\ runs_started = 1
    /\ runs_started' = 2
    /\ runtime_dynamic_keys' = empty_runtime_key_state
    /\ questions_started' = 0
    /\ preflights' = <<>>
    /\ evidence_blocks' = <<>>
    /\ preflight_rows_by_name' = <<>>
    /\ step_idx' = 0
    /\ preflight_sig_cache' = <<>>
    /\ preflight_filtered_to_zero_failures' = <<>>
    /\ report_lines' = <<"header">>
    /\ fatal_contract_issues' = <<>>
    /\ pc' = "question_start"
    /\ UNCHANGED <<cfg, cacheidle, preflight_artifacts, report_file>>

NextCache ==
    \/ BeginQuestion
    \/ RunPreflightStep
    \/ PreflightsRun
    \/ FilterArtifact
    \/ ArtifactsFiltered
    \/ InjectEvidence
    \/ EvidenceGates
    \/ QuestionAnswered
    \/ FinishRun
    \/ RunAgain

SpecCache == InitCache /\ [][NextCache]_vars

-----------------------------------------------------------------------------
(* Properties of the preflight artifacts *)

\* what the engine returned for the command of an artifact
EngineOutput(art) == cfg.engine[art.sig]

\* C22: after any number of filtering passes over an artifact, its stored raw
\* payload is the engine's original output and its recorded pre-filter row
\* count is the number of rows of that output.
C22_RawPayloadPreserved ==
    \A f \in DOMAIN preflight_artifacts :
        LET art == preflight_artifacts[f]
        IN  art.stdout_filtered =>
               /\ art.has_raw
               /\ art.stdout_raw = EngineOutput(art).rows
               /\ art.rows_before = Len(EngineOutput(art).rows)

\* the rows a step's own transform leaves of the engine's output for its command
OwnFilteredRows(step) ==
    apply_transform_filters(runtime_dynamic_keys, cfg.engine[step.cmd].rows,
                            step.transform, <<>>, cfg).rows

\* the gates of the current question have been passed
GatesPassed == pc \in {"question_done", "run_aborted"}

\* the engine returned at least raw_rows_threshold rows for the step and the
\* step's transform removes all of them
FilteredToZero(step) ==
    /\ cfg.engine[step.cmd].returncode = 0
    /\ Len(cfg.engine[step.cmd].rows) >= cfg.raw_rows_threshold
    /\ OwnFilteredRows(step) = <<>>

\* C23: with the starvation gate enabled, a step whose raw rows reach the
\* threshold and are all removed by its filters makes the question fatal,
\* whatever the other steps of the question return; with fail-fast the run
\* stops there.
C23_FilteredToZeroFatal ==
    (GatesPassed /\ cfg.filtered_to_zero_fail_enabled) =>
        \A i \in 1..Len(preflights) :
            FilteredToZero(preflights[i]) =>
               /\ \E k \in 1..Len(fatal_contract_issues) :
                     fatal_contract_issues[k] =
                        [question |-> questions_started, kind |-> "filtered_to_zero"]
               /\ cfg.filtered_to_zero_fail_fast => pc = "run_aborted"

\* C30: a step that reuses the artifact of another step with the same
\* signature still gets its own filtering: the rows kept for each successful
\* step of the question are its own transform applied to the engine's output.
C30_CacheReuseOwnFilter ==
    GatesPassed =>
        \A i \in 1..Len(preflights) :
            LET step == preflights[i]
            IN  cfg.engine[step.cmd].returncode = 0 =>
                   /\ step.name \in DOMAIN preflight_rows_by_name
                   /\ preflight_rows_by_name[step.name] = OwnFilteredRows(step)

-----------------------------------------------------------------------------
(* Evidence starvation of a question *)

\* the calls that send the question to the answer model
AnswerModelCalls == {"primary", "adaptive_rerun", "schema_retry"}

SentToAnswerModel ==
    \E i \in 1..Len(llm_dispatch) : llm_dispatch[i] \in AnswerModelCalls

\* no block of the question has usable evidence
NoUsableEvidence ==
    ~ \E i \in 1..Len(evidence_blocks) : evidence_blocks[i].usable

C24_WitnessAbort ==
    /\ pc = "aborted" /\ NoUsableEvidence /\ llm_dispatch = <<>>

-----------------------------------------------------------------------------
(* The run as a whole: start-up checks, the question loop, report and exit *)

\* the policy of a run: the per-question configuration and the start-up inputs
RunModeProfiles == ModeProfiles \cup { <<"llm", "none", TRUE>> }

\* (adaptive_top_k, schema_retry_attempts)
RunRetryProfiles == { <<FALSE, 0>>, <<TRUE, MaxSchemaRetryAttempts>> }

RunConfigs ==
    { [ strict_response_template         |-> FALSE,
        required_verdicts                |-> DefaultVerdicts,
        fail_on_missing_citations        |-> mandatory,
        enforce_citations_from_evidence  |-> TRUE,
        enforce_no_new_paths             |-> TRUE,
        enforce_paths_must_be_cited      |-> FALSE,
        adaptive_top_k                   |-> r[1],
        chat_top_k_initial               |-> 1,
        top_k_max                        |-> MaxTopK,
        schema_retry_attempts            |-> r[2],
        answer_mode                      |-> m[1],
        advice_mode                      |-> m[2],
        mission_advice_gate_enabled      |-> m[3],
        evidence_empty_gate              |-> e[1],
        strict_empty_evidence_abort      |-> e[2],
        fatal_schema_contract_error      |-> s = "schema_contract",
        corpus_scope                     |-> IF s \in {"contaminated", "invalid_regex"}
                                             THEN s ELSE "clean",
        minimum_questions                |-> IF s = "minimum_questions"
                                             THEN MaxQuestions + 1 ELSE 0 ] :
        mandatory \in BOOLEAN, r \in RunRetryProfiles, m \in RunModeProfiles,
        e \in EmptyEvidenceProfiles,
        s \in {"ok", "schema_contract", "contaminated", "invalid_regex",
               "minimum_questions"} }

\* what the preflight phase of a question comes to
PreflightOutcomes == {"evidence", "dependency_issues", "invalid_regex"}

\* a line of report_lines, by the question it belongs to (0: the run)
ReportLine(q, kind) == [question |-> q, kind |-> kind]

\* an entry of fatal_contract_issues or fatal_advice_gate_issues
FatalIssue(q, kind) == [question |-> q, kind |-> kind]

\* lines 6064-6067, variant: the issues are fatal whatever the policy says
extend_fatal_contract_Always(fatal, q, issues, c) ==
    IF issues # <<>> THEN Append(fatal, FatalIssue(q, "response_schema")) ELSE fatal

\* lines 6064-6067: if pack.validation.fail_on_missing_citations:
\*     fatal_contract_issues.extend(...)
extend_fatal_contract(fatal, q, issues, c) ==
    IF issues # <<>> /\ c.fail_on_missing_citations
    THEN Append(fatal, FatalIssue(q, "response_schema")) ELSE fatal

\* lines 6328-6335, variant: the issues are fatal in every mode
extend_fatal_advice_Always(fatal, q, issues, c) ==
    IF issues THEN Append(fatal, FatalIssue(q, "advice_quality")) ELSE fatal

\* lines 6328-6335: if mission_advice_gate_enabled:
\*     fatal_advice_gate_issues.extend(...)
extend_fatal_advice(fatal, q, issues, c) ==
    IF issues /\ c.mission_advice_gate_enabled
    THEN Append(fatal, FatalIssue(q, "advice_quality")) ELSE fatal

\* the state of the preflight phase, which these runs take as given
runidle == <<runtime_dynamic_keys, engine_schema_contract_loaded, evidence_key_state,
             preflights, preflight_artifacts, preflight_rows_by_name, step_idx,
             transform_events, preflight_sig_cache,
             preflight_filtered_to_zero_failures, runs_started>>

InitRun ==
    /\ pc = "run_start"
    /\ cfg \in RunConfigs
    /\ AnswerIdle
    /\ ExtIdle

\* lines 4648-4961: the schema contract gate, the report header, the corpus
\* scope gate, the minimum_questions check and the mission advice-mode check
StartRun ==
    /\ pc = "run_start"
    /\ LET header == <<ReportLine(0, "header")>>
       IN  IF cfg.fatal_schema_contract_error
           THEN /\ pc' = "run_aborted"
                /\ UNCHANGED <<report_lines, report_file, fatal_contract_issues>>
           ELSE IF cfg.corpus_scope = "invalid_regex"
           THEN /\ pc' = "run_aborted"
                /\ report_lines' = header
                /\ UNCHANGED <<report_file, fatal_contract_issues>>
           ELSE IF cfg.corpus_scope = "contaminated"
           THEN /\ pc' = "run_aborted"
                /\ report_lines' = Append(header, ReportLine(0, "corpus_scope_gate"))
                /\ fatal_contract_issues' =
                      Append(fatal_contract_issues, FatalIssue(0, "corpus_scope_gate"))
                /\ report_file' = report_lines'
           ELSE IF cfg.minimum_questions # 0 /\ MaxQuestions < cfg.minimum_questions
           THEN /\ pc' = "run_aborted"
                /\ report_lines' = header
                /\ UNCHANGED <<report_file, fatal_contract_issues>>
           ELSE IF cfg.mission_advice_gate_enabled /\ cfg.advice_mode # "llm"
           THEN /\ pc' = "run_aborted"
                /\ report_lines' = header
                /\ UNCHANGED <<report_file, fatal_contract_issues>>
           ELSE /\ pc' = "question_start"
                /\ report_lines' = header
                /\ UNCHANGED <<report_file, fatal_contract_issues>>
    /\ UNCHANGED <<cfg, answervars, runidle, questions_started, fatal_advice_gate_issues>>

\* lines 4964-5475: the next question begins; its preflight phase either
\* stops the run (dependency validation, an invalid transform regex) or
\* leaves the evidence blocks of the question
StartRunQuestion ==
    /\ pc = "question_start"
    /\ questions_started < MaxQuestions
    /\ questions_started' = questions_started + 1
    /\ \E outcome \in PreflightOutcomes, blocks \in EvidenceUniverse :
          LET q == questions_started + 1
              lines == Append(report_lines, ReportLine(q, "question"))
          IN  CASE outcome = "dependency_issues" ->
                     /\ report_lines' = Append(lines, ReportLine(q, "dependency_issues"))
                     /\ fatal_contract_issues' =
                           Append(fatal_contract_issues, FatalIssue(q, "dependency_issues"))
                     /\ report_file' = report_lines'
                     /\ pc' = "run_aborted"
                     /\ UNCHANGED answervars
                [] outcome = "invalid_regex" ->
                     /\ report_lines' = lines
                     /\ pc' = "run_aborted"
                     /\ UNCHANGED <<answervars, report_file, fatal_contract_issues>>
                [] outcome = "evidence" ->
                     /\ report_lines' = lines
                     /\ evidence_blocks' = blocks
                     /\ allowed_citations' = {}
                     /\ allowed_built' = FALSE
                     /\ answer' = <<>>
                     /\ last_reply' = <<>>
                     /\ top_k' = 0
                     /\ adaptive_rerun_count' = 0
                     /\ schema_retry_count' = 0
                     /\ advice_retry_count' = 0
                     /\ retry_idx' = 0
                     /\ llm_dispatch' = <<>>
                     /\ schema_issues' = <<>>
                     /\ advice_quality_issues' = FALSE
                     /\ engine_added' = {}
                     /\ pc' = "gathered"
                     /\ UNCHANGED <<report_file, fatal_contract_issues>>
    /\ UNCHANGED <<cfg, runidle, fatal_advice_gate_issues>>

\* lines 5500-5659: the allowed set is built, then the strict evidence gate
\* writes the partial report and stops the run
PrepareRunQuestion ==
    /\ pc = "gathered"
    /\ IF cfg.enforce_citations_from_evidence
       THEN /\ allowed_citations' = extract_allowed_citation_tokens(evidence_blocks)
            /\ allowed_built' = TRUE
       ELSE UNCHANGED <<allowed_citations, allowed_built>>
    /\ IF cfg.strict_empty_evidence_abort /\ evidence_is_empty(evidence_blocks)
       THEN /\ report_lines' = Append(report_lines,
                                      ReportLine(questions_started, "evidence_gate"))
            /\ fatal_contract_issues' =
                  Append(fatal_contract_issues,
                         FatalIssue(questions_started, "empty_evidence"))
            /\ report_file' = report_lines'
            /\ pc' = "run_aborted"
       ELSE /\ pc' = "chat"
            /\ UNCHANGED <<report_lines, report_file, fatal_contract_issues>>
    /\ UNCHANGED <<cfg, runidle, questions_started, fatal_advice_gate_issues,
                   evidence_blocks, answer, last_reply, top_k, adaptive_rerun_count,
                   schema_retry_count, advice_retry_count, retry_idx, llm_dispatch,
                   schema_issues, advice_quality_issues, engine_added>>

\* lines 6036-6082: the final validation of the answer
FinalRunValidation ==
    /\ pc = "validate"
    /\ schema_issues' = Probe(answer)
    /\ report_lines' =
          IF schema_issues' # <<>>
          THEN Append(report_lines, ReportLine(questions_started, "response_schema"))
          ELSE report_lines
    /\ fatal_contract_issues' =
          extend_fatal_contract(fatal_contract_issues, questions_started,
                                schema_issues', cfg)
    /\ pc' = "advice"
    /\ UNCHANGED <<cfg, runidle, questions_started, fatal_advice_gate_issues,
                   report_file, evidence_blocks, allowed_citations, allowed_built,
                   answer, last_reply, top_k, adaptive_rerun_count,
                   schema_retry_count, advice_retry_count, retry_idx, llm_dispatch,
                   advice_quality_issues, engine_added>>

\* lines 6210-6335: the advice retry loop breaks or is exhausted; the issues
\* that remain are reported
AdviceRunLoopExit ==
    /\ pc = "advice_loop"
    /\ ~(retry_idx <= advice_retry_attempts(cfg) /\ advice_quality_issues)
    /\ report_lines' =
          IF advice_quality_issues
          THEN Append(report_lines, ReportLine(questions_started, "advice_quality"))
          ELSE report_lines
    /\ fatal_advice_gate_issues' =
          extend_fatal_advice(fatal_advice_gate_issues, questions_started,
                              advice_quality_issues, cfg)
    /\ pc' = "done"
    /\ UNCHANGED <<cfg, runidle, questions_started, fatal_contract_issues,
                   report_file, answervars>>

\* the loop goes on to the next question
QuestionDone ==
    /\ pc = "done"
    /\ pc' = "question_start"
    /\ UNCHANGED <<cfg, runidle, questions_started, fatal_contract_issues,
                   fatal_advice_gate_issues, report_lines, report_file, answervars>>

\* lines 6464-6580: the report is written, then the run exits
FinishPackRun ==
    /\ pc = "question_start"
    /\ questions_started = MaxQuestions
    /\ report_file' = report_lines
    /\ pc' = IF fatal_contract_issues # <<>> \/ fatal_advice_gate_issues # <<>>
             THEN "exit_2" ELSE "exit_0"
    /\ UNCHANGED <<cfg, runidle, questions_started, fatal_contract_issues,
                   fatal_advice_gate_issues, report_lines, answervars>>

NextRun ==
    \/ StartRun
    \/ StartRunQuestion
    \/ PrepareRunQuestion
    \/ DeterministicAnswer
    \/ EvidenceEmptyGate
    \/ PrimaryCall
    \/ AdaptiveRerun
    \/ NoAdaptiveRerun
    \/ SchemaRetry
    \/ SchemaRetrySatisfied
    \/ SchemaLoopExit
    \/ StrictContractRepair
    \/ GateBRepair
    \/ FinalRunValidation
    \/ AdviceSkipped
    \/ AdvicePrimary
    \/ AdviceRetry
    \/ AdviceRunLoopExit
    \/ QuestionDone
    \/ FinishPackRun

SpecRun == InitRun /\ [][NextRun]_vars

\* C25: on every path on which the run aborts with a fatal condition, the
\* report lines accumulated so far are written to the report file before exit.
C25_FlushBeforeAbort ==
    pc = "run_aborted" => report_file = report_lines

\* the run has come to its regular end
RunExited == pc \in {"exit_0", "exit_2"}

\* some question's final answer was reported with validation issues
IssuesRemained ==
    \E i \in 1..Len(report_lines) : report_lines[i].kind = "response_schema"

\* the validation issues of the current question have been reported
CurrentQuestionValidated ==
    \E i \in 1..Len(report_lines) :
        report_lines[i] = ReportLine(questions_started, "response_schema")

SchemaFatal ==
    \E i \in 1..Len(fatal_contract_issues) :
        fatal_contract_issues[i].kind = "response_schema"

\* C26: validation issues left on a final answer make the run fail exactly
\* when fail_on_missing_citations is set; they never stop the run before the
\* remaining questions are processed, and the final report is written before
\* the failing exit.
C26_ValidationTerminalIffMandatory ==
    /\ SchemaFatal <=> (IssuesRemained /\ cfg.fail_on_missing_citations)
    /\ pc = "run_aborted" => ~CurrentQuestionValidated
    /\ RunExited =>
          /\ questions_started = MaxQuestions
          /\ (IssuesRemained /\ cfg.fail_on_missing_citations) => pc = "exit_2"
          /\ (fatal_contract_issues = <<>> /\ fatal_advice_gate_issues = <<>>)
                => pc = "exit_0"
          /\ report_file = report_lines

\* the first question keeps validation issues under a mandatory policy, the
\* second one is still processed, the run fails with the report written
C26_Witness ==
    /\ pc = "exit_2"
    /\ cfg.fail_on_missing_citations
    /\ questions_started = MaxQuestions
    /\ \E i \in 1..Len(report_lines) : report_lines[i] = ReportLine(1, "response_schema")
    /\ \E i \in 1..Len(report_lines) : report_lines[i] = ReportLine(MaxQuestions, "question")
    /\ report_file = report_lines

\* issues remain, the policy does not make them mandatory: exit 0
C26_WitnessOptional ==
    /\ pc = "exit_0" /\ IssuesRemained /\ ~cfg.fail_on_missing_citations

\* the advice calls of the current question
AdviceRetryCalls ==
    Len(SelectSeq(llm_dispatch, LAMBDA d : d = "advice_retry"))

AdviceFatal == fatal_advice_gate_issues # <<>>

AdviceIssuesReported ==
    \E i \in 1..Len(report_lines) : report_lines[i].kind = "advice_quality"

\* what a step of the run may do to the advice retries
C27_Step ==
    /\ advice_retry_count' > advice_retry_count => advice_quality_issues
    /\ fatal_advice_gate_issues' # fatal_advice_gate_issues =>
          (cfg.mission_advice_gate_enabled /\ advice_quality_issues)
    /\ AdviceRetryCalls' <= AdviceRetryAttempts
    /\ advice_retry_count' <= AdviceRetryAttempts
    /\ (RunExited' /\ AdviceFatal') => pc' = "exit_2"
    /\ (RunExited' /\ ~cfg.mission_advice_gate_enabled) =>
          /\ ~AdviceFatal'
          /\ pc' = "exit_2" <=> fatal_contract_issues' # <<>>

\* C27: a question gets at most the configured number of advice retry calls
\* and none once the advice has no issues; remaining advice issues make the
\* run fail in mission mode and leave the exit status alone in any other mode.
C27_AdviceRetryBoundedMissionFatal == [][C27_Step]_vars

\* mission mode: the retry was made, issues remained, the run failed
C27_Witness ==
    /\ pc = "exit_2"
    /\ cfg.mission_advice_gate_enabled
    /\ advice_retry_count = AdviceRetryAttempts
    /\ AdviceFatal
    /\ fatal_contract_issues = <<>>

\* another mode: issues were reported, the run exits with 0
C27_WitnessOtherMode ==
    /\ pc = "exit_0" /\ ~cfg.mission_advice_gate_enabled /\ AdviceIssuesReported

-----------------------------------------------------------------------------
(* Required keys of a strict response template (core/validation.py) *)

\* A line of a template or of an answer is "key_eq" when it matches the
\* pattern of an upper-case key followed by "=", kept with its key and its
\* stripped value; any other line ("real=x", "REAL: x", a heading, prose)
\* is "other".

KeyEqLine(key, value) == [form |-> "key_eq", key |-> key, value |-> value]

OtherLine == [form |-> "other", key |-> "", value |-> ""]

\* str.upper() on the values of the runs
Upper(v) ==
    CASE v = "none" -> "NONE"
      [] v = "tbd"  -> "TBD"
      [] v = "x"    -> "X"
      [] OTHER      -> v

PlaceholderValues == {"NONE", "N/A", "NA", "UNKNOWN", "TBD", "MISSING", "..."}

RECURSIVE extract_keys_from(_, _, _)
extract_keys_from(lines, i, keys) ==
    IF i > Len(lines) THEN keys
    ELSE LET ln == lines[i]
         IN  IF ln.form # "key_eq" THEN extract_keys_from(lines, i + 1, keys)
             ELSE IF ln.key \in {"VERDICT", "CITATIONS"}
             THEN extract_keys_from(lines, i + 1, keys)
             ELSE IF \E k \in 1..Len(keys) : keys[k] = ln.key
             THEN extract_keys_from(lines, i + 1, keys)
             ELSE extract_keys_from(lines, i + 1, Append(keys, ln.key))

\* extract_required_keys_from_contract(text)
extract_required_keys_from_contract(text) == extract_keys_from(text, 1, <<>>)

\* values[m.group(1).upper()] = m.group(2).strip(), over the lines in order
RECURSIVE key_values(_, _, _)
key_values(lines, i, values) ==
    IF i > Len(lines) THEN values
    ELSE LET ln == lines[i]
         IN  IF ln.form # "key_eq" THEN key_values(lines, i + 1, values)
             ELSE key_values(lines, i + 1, (ln.key :> ln.value) @@ values)

\* variant: the first line of a key counts
RECURSIVE key_values_FirstWins(_, _, _)
key_values_FirstWins(lines, i, values) ==
    IF i > Len(lines) THEN values
    ELSE LET ln == lines[i]
         IN  IF ln.form # "key_eq" THEN key_values_FirstWins(lines, i + 1, values)
             ELSE key_values_FirstWins(lines, i + 1, values @@ (ln.key :> ln.value))

MissingKeyIssue(key) == [kind |-> "missing_required_key_line", key |-> key]

\* validate_required_key_lines, variant: the first line of a key counts
validate_required_key_lines_FirstWins(answer_lines, keys) ==
    IF keys = <<>> THEN <<>>
    ELSE LET values == key_values_FirstWins(answer_lines, 1, <<>>)
             val(key) == IF key \in DOMAIN values THEN values[key] ELSE ""
             missing(key) == val(key) = "" \/ Upper(val(key)) \in PlaceholderValues
             issue_of(key) == MissingKeyIssue(key)
         IN  [i \in 1..Len(SelectSeq(keys, missing)) |->
                 issue_of(SelectSeq(keys, missing)[i])]

\* validate_required_key_lines(answer, keys)
validate_required_key_lines(answer_lines, keys) ==
    IF keys = <<>> THEN <<>>
    ELSE LET values == key_values(answer_lines, 1, <<>>)
             val(key) == IF key \in DOMAIN values THEN values[key] ELSE ""
             missing(key) == val(key) = "" \/ Upper(val(key)) \in PlaceholderValues
             issue_of(key) == MissingKeyIssue(key)
         IN  [i \in 1..Len(SelectSeq(keys, missing)) |->
                 issue_of(SelectSeq(keys, missing)[i])]

ContractLines ==
    { KeyEqLine(k, "") : k \in {"VERDICT", "CITATIONS", "REAL", "FAKE"} } \cup {OtherLine}

TemplateAnswerLines ==
    { KeyEqLine("REAL", v) : v \in {"x", "NONE", "none", ""} }
    \cup { KeyEqLine("FAKE", "x"), KeyEqLine("VERDICT", "TRUE_POSITIVE"), OtherLine }

\* templates of up to three lines and answers of up to two, and the answer
\* of test_strict_template_validation.py
TemplateInputs ==
    { [contract |-> c, answer |-> a] :
        c \in SeqsUpTo2(ContractLines) \cup [1..3 -> ContractLines],
        a \in SeqsUpTo2(TemplateAnswerLines)
              \cup { << KeyEqLine("VERDICT", "TRUE_POSITIVE"),
                        KeyEqLine("CITATIONS", "a:1"), KeyEqLine("REAL", "x") >> } }

InitTemplate ==
    /\ pc = "template"
    /\ cfg \in TemplateInputs
    /\ AnswerIdle
    /\ ExtIdle

\* keys = extract_required_keys_from_contract(c)
\* issues = validate_required_key_lines(answer, keys)
StrictTemplateValidation ==
    /\ pc = "template"
    /\ schema_issues' =
          validate_required_key_lines(cfg.answer,
                                      extract_required_keys_from_contract(cfg.contract))
    /\ pc' = "template_validated"
    /\ UNCHANGED <<extvars, cfg, evidence_blocks, allowed_citations, allowed_built,
                   answer, last_reply, top_k, adaptive_rerun_count,
                   schema_retry_count, advice_retry_count, retry_idx, llm_dispatch,
                   advice_quality_issues, engine_added>>

NextTemplate == StrictTemplateValidation

SpecTemplate == InitTemplate /\ [][NextTemplate]_vars

\* the keys a template asks for besides VERDICT and CITATIONS
TemplateKeys ==
    { cfg.contract[i].key : i \in { j \in 1..Len(cfg.contract) :
          /\ cfg.contract[j].form = "key_eq"
          /\ cfg.contract[j].key \notin {"VERDICT", "CITATIONS"} } }

FirstLineOf(key) ==
    CHOOSE i \in 1..Len(cfg.contract) :
        /\ cfg.contract[i].form = "key_eq" /\ cfg.contract[i].key = key
        /\ \A j \in 1..(i - 1) :
              ~(cfg.contract[j].form = "key_eq" /\ cfg.contract[j].key = key)

\* the keys come in the order of their first lines, each once, without
\* VERDICT and CITATIONS
RequiredKeysInOrder ==
    LET keys == extract_required_keys_from_contract(cfg.contract)
    IN  /\ { keys[i] : i \in 1..Len(keys) } = TemplateKeys
        /\ \A i, j \in 1..Len(keys) :
              i < j => FirstLineOf(keys[i]) < FirstLineOf(keys[j])

RealValue(v) == v # "" /\ Upper(v) \notin PlaceholderValues

\* the answer has a KEY=value line with a real value
HasRealLine(key) ==
    \E i \in 1..Len(cfg.answer) :
        /\ cfg.answer[i].form = "key_eq" /\ cfg.answer[i].key = key
        /\ RealValue(cfg.answer[i].value)

\* the last KEY= line of the answer has a real value
LastLineReal(key) ==
    \E i \in 1..Len(cfg.answer) :
        /\ cfg.answer[i].form = "key_eq" /\ cfg.answer[i].key = key
        /\ RealValue(cfg.answer[i].value)
        /\ \A j \in (i + 1)..Len(cfg.answer) :
              ~(cfg.answer[j].form = "key_eq" /\ cfg.answer[j].key = key)

\* one issue for each of the given keys, none for any other
IssuesExactlyFor(keys) ==
    /\ { schema_issues[i] : i \in 1..Len(schema_issues) } =
          { MissingKeyIssue(k) : k \in keys }
    /\ Len(schema_issues) = Cardinality(keys)

\* C28 as stated: the required keys are the KEY= names in first-appearance
\* order without duplicates, VERDICT and CITATIONS; an issue is reported for
\* exactly the required keys that have no KEY=value line with a real value.
C28_RequiredKeyLines ==
    pc = "template_validated" =>
        /\ RequiredKeysInOrder
        /\ IssuesExactlyFor({ k \in TemplateKeys : ~HasRealLine(k) })

\* C28 (amended): an issue is reported for exactly the required keys whose
\* last KEY= line in the answer has no real value, or that have no such line.
C28_RequiredKeyLastLine ==
    pc = "template_validated" =>
        /\ RequiredKeysInOrder
        /\ IssuesExactlyFor({ k \in TemplateKeys : ~LastLineReal(k) })

\* the template repeats REAL after FAKE, the answer gives REAL only
C28_Witness ==
    /\ pc = "template_validated"
    /\ cfg.contract = << KeyEqLine("REAL", ""), KeyEqLine("FAKE", ""), KeyEqLine("REAL", "") >>
    /\ cfg.answer = << KeyEqLine("VERDICT", "TRUE_POSITIVE"),
                       KeyEqLine("CITATIONS", "a:1"), KeyEqLine("REAL", "x") >>
    /\ schema_issues = << MissingKeyIssue("FAKE") >>

-----------------------------------------------------------------------------
(* The character budget of a rendered evidence block (format_evidence_block) *)

\* The renderers are modelled by the lengths of the strings they build.  A
\* row {"file_path", "line_start", "snippet"} is kept as the length of its
\* location "path:line" and the length of its snippet; every row has a
\* snippet of one line, no longer than the shortening limits.
RenderRow(loc_len, text_len) == [loc_len |-> loc_len, text_len |-> text_len]

\* len(str(n))
DecimalLen(n) == IF n < 10 THEN 1 ELSE IF n < 100 THEN 2 ELSE 3

\* len(s[:b]) for a string of the given length: a negative b counts from the end
SliceLen(len, b) == IF b >= 0 THEN Min2(len, b) ELSE Max2(0, len + b)

\* len("\n".join(parts)) for parts of the given total length
JoinedLen(count, sum) == IF count = 0 THEN 0 ELSE sum + (count - 1)

\* header = f"[{name}] {len(rows)} results:"
render_header_len(name_len, n) == 1 + name_len + 2 + DecimalLen(n) + 9

\* "  " + " | ".join([f"{i+1}. {loc}", line_text])
list_line_len(i, r) == 2 + (DecimalLen(i) + 2 + r.loc_len) + 3 + r.text_len

RECURSIVE list_lines_sum(_, _)
list_lines_sum(rows, i) ==
    IF i > Len(rows) THEN 0 ELSE list_line_len(i, rows[i]) + list_lines_sum(rows, i + 1)

\* _format_list_rows: "\n".join(out)[:max_chars]
format_list_rows(rows, max_chars) ==
    SliceLen(JoinedLen(Len(rows), list_lines_sum(rows, 1)), max_chars)

\* block = f"{header}\n{fence}\n{source}\n```\n" with header "### {loc}"
block_len(r) == (4 + r.loc_len) + 1 + 3 + 1 + r.text_len + 1 + 3 + 1

\* f"... ({len(rows) - i} more rows truncated)"
block_marker_len(k) == 5 + DecimalLen(k) + 21

RECURSIVE format_block_from(_, _, _, _, _)
format_block_from(rows, i, total, count, max_chars) ==
    IF i > Len(rows) THEN JoinedLen(count, total)
    ELSE IF total + block_len(rows[i]) > max_chars
    THEN JoinedLen(count + 1, total + block_marker_len(Len(rows) - (i - 1)))
    ELSE format_block_from(rows, i + 1, total + block_len(rows[i]), count + 1, max_chars)

\* _format_block_rows
format_block_rows(rows, max_chars) == format_block_from(rows, 1, 0, 0, max_chars)

\* line = f"  [{loc}] {text}"
lines_line_len(r) == 2 + 1 + r.loc_len + 2 + r.text_len

\* f"  ... ({len(rows) - len(parts)} more)"
lines_marker_len(k) == 7 + DecimalLen(k) + 6

RECURSIVE format_lines_from(_, _, _, _, _, _)
format_lines_from(rows, i, total, count, sum, max_chars) ==
    IF i > Len(rows) THEN JoinedLen(count, sum)
    ELSE LET line == lines_line_len(rows[i])
         IN  IF total + line + 1 > max_chars
             THEN JoinedLen(count + 1, sum + lines_marker_len(Len(rows) - count))
             ELSE format_lines_from(rows, i + 1, total + line + 1, count + 1,
                                    sum + line, max_chars)

\* _format_lines_rows
format_lines_rows(rows, max_chars) == format_lines_from(rows, 1, 0, 0, 0, max_chars)

\* one row of json.dumps(rows, indent=1): the braces, the three keys with
\* their quotes and separators, the path, the line number and the snippet
json_row_len(r) == 57 + r.loc_len + r.text_len

RECURSIVE json_rows_sum(_, _)
json_rows_sum(rows, i) ==
    IF i > Len(rows) THEN 0 ELSE json_row_len(rows[i]) + json_rows_sum(rows, i + 1)

\* len(json.dumps(rows, ensure_ascii=False, indent=1))
json_dumps_len(rows) == 2 + json_rows_sum(rows, 1) + 2 * (Len(rows) - 1) + 2

\* _format_json_rows: s[:max_chars] + "\n... (truncated)" when too long
format_json_rows(rows, max_chars) ==
    LET s == json_dumps_len(rows)
    IN  IF s > max_chars THEN SliceLen(s, max_chars) + 16 ELSE s

\* format_evidence_block: the length of the text it returns
format_evidence_block(name_len, rows, fallback_len, max_chars, render_mode) ==
    IF rows # <<>>
    THEN LET header == render_header_len(name_len, Len(rows))
             budget == max_chars - header - 2
             body == CASE render_mode = "block" -> format_block_rows(rows, budget)
                       [] render_mode = "lines" -> format_lines_rows(rows, budget)
                       [] render_mode = "json"  -> format_json_rows(rows, budget)
                       [] OTHER                 -> format_list_rows(rows, budget)
         IN  header + 1 + body
    ELSE SliceLen(fallback_len, max_chars)

\* rows src/a.rs:1 with a snippet of 10 characters and src/b.rs:2 with one of 30
RenderRows == { RenderRow(10, 10), RenderRow(10, 30) }

RenderInputs ==
    { [name_len |-> 6, rows |-> rows, fallback_len |-> 50, max_chars |-> mc,
       render_mode |-> mode] :
        rows \in SeqsUpTo2(RenderRows) \cup [1..3 -> RenderRows],
        mc \in {10, 40, 80, 120, 400},
        mode \in {"list", "block", "lines", "json"} }

InitRender ==
    /\ pc = "render"
    /\ cfg \in RenderInputs
    /\ AnswerIdle
    /\ ExtIdle

\* evidence_blocks.append(format_evidence_block(name, stdout_data, ...))
FormatEvidenceBlock ==
    /\ pc = "render"
    /\ evidence_blocks' =
          << [chars |-> format_evidence_block(cfg.name_len, cfg.rows, cfg.fallback_len,
                                              cfg.max_chars, cfg.render_mode)] >>
    /\ pc' = "rendered"
    /\ UNCHANGED <<extvars, cfg, allowed_citations, allowed_built, answer, last_reply,
                   top_k, adaptive_rerun_count, schema_retry_count,
                   advice_retry_count, retry_idx, llm_dispatch, schema_issues,
                   advice_quality_issues, engine_added>>

NextRender == FormatEvidenceBlock

SpecRender == InitRender /\ [][NextRender]_vars

\* C29: in every render mode, for every row sequence and every max_chars, the
\* rendered evidence block, header and truncation marker included, has at
\* most max_chars characters.
C29_RenderWithinBudget ==
    pc = "rendered" => evidence_blocks[1].chars <= cfg.max_chars

====
